---- MODULE Spec2Model ----
(***************************************************************************)
(* Ambient transaction context of the points-ledger backend:               *)
(*   TransactionContextStorage (run / getSession over AsyncLocalStorage),  *)
(*   withTransaction (session + transaction around a work function) and   *)
(*   the session attachment of BaseRepository.                             *)
(*                                                                         *)
(* A "scope" is one call of storage.run(context, callback): either the one *)
(* withTransaction makes (kind "txn") or a direct one (kind "raw").  Frame *)
(* 0 is the main call chain, outside every run; frame i > 0 is the         *)
(* callback of scope i.  Every action is one synchronous run-to-await      *)
(* segment of the single-threaded event loop, so actions of different      *)
(* scopes interleave exactly at the suspension points.                     *)
(***************************************************************************)
EXTENDS Integers, FiniteSets, Sequences, TLC

MaxInv == 2
MaxFan == 1
MaxDocs == 5
MaxPage == 3
MaxLimit == 2
MaxInst == 2
MaxOps == 3
MaxAmount == 2

Scopes == 1..MaxInv
Frames == 0..MaxInv
Branches == {"a", "b"}

NoSession == 0
Sessions == 1..MaxInv

\* how a promise settled: with the value or the error made by scope v, or with
\* an error of the store driver
None == [type |-> "none", v |-> 0]
Value(i) == [type |-> "value", v |-> i]
Error(i) == [type |-> "error", v |-> i]
SessionErr == [type |-> "startSessionError", v |-> 0]
OpenErr == [type |-> "startTransactionError", v |-> 0]
CommitErr == [type |-> "commitError", v |-> 0]

\* TransactionContext: undefined store, or a context with an optional session
NoStore == [has |-> FALSE, session |-> NoSession]
Context(s) == [has |-> TRUE, session |-> s]

VARIABLES
    nextScope,   \* next scope to be entered (scopes are numbered in call order)
    kind,        \* kind[i]: "none" | "txn" | "raw"
    parent,      \* parent[i]: the frame that called scope i
    pc,          \* pc[i]: position of scope i
    sess,        \* sess[i]: session of scope i's context (NoSession if none)
    store,       \* store[f]: AsyncLocalStorage store of frame f
    branch,      \* branch[i][b]: fan-out branch of callback i: "none" | "pending" | "done"
    bstore,      \* bstore[i][b]: store captured by the branch when it was created
    bseen,       \* bseen[i]: sessions getSession() returned inside fan-out branches of i
    fnOut,       \* fnOut[i]: how the work function / callback of i settled
    result,      \* result[i]: how the promise of the call settled
    seen,        \* seen[i]: <<number of nested calls returned, getSession() value>> in callback i
    nested,      \* nested[i]: nested calls of callback i that have returned
    caught,      \* caught[i]: nested scopes whose rejection callback i caught
    prop,        \* prop[i]: nested scope whose rejection callback i let through (0 if none)
    awaiting,    \* awaiting[i]: nested scope callback i is awaiting (0 if none)
    after,       \* <<i, getSession()>> of the main chain after its call i returned
    nextSession, \* next fresh handle connection.startSession() hands out
    txn,         \* txn[s]: "none" | "open" | "committed" | "aborted"
    ended,       \* sessions on which endSession() has run
    cmds,        \* every create command sent to the store: [by, n, session]
    pending,     \* pending[s]: documents written inside the open transaction of s
    committed,   \* documents durable in the store
    calls,       \* calls[i]: how many times the callback / work function of i was invoked
    endCalls,    \* endCalls[i]: how many times call i has called session.endSession()
    lastCmd,     \* the store command(s) of the latest repository operation
    collection,  \* findWithPagination: the stored documents matching the filter, in sort order
    page,        \* findWithPagination: the page argument
    limit,       \* findWithPagination: the limit argument
    pageResult,  \* findWithPagination: the replies received so far, then { data, total }
    instances,   \* instances[r]: how many times the decorated repository class r was constructed
    errCall,     \* the latest call of an error-handling method: what was thrown, what came out
    moduleRef,   \* the module-level registry reference of the Transactional decorator
    tcall,       \* tcall[i]: receiver and arguments of the decorated call that made withTransaction call i
    closure,     \* closure[i]: receiver and arguments the work function of call i applies the original to
    tresult,     \* tresult[i]: how the promise of that decorated call settled
    lastCall,    \* the latest call that made no withTransaction call: rejected by the wrapper, or unmarked
    unit,        \* unit[i]: how far the createPointBalance body run by call i has come
    lastRead,    \* the latest read command: the session it carried and the documents it found
    available,   \* availablePoints of the stored balance of an existing user
    inflight,    \* balance mutations sent to the store and not yet applied
    applied,     \* sum of the increments the store has applied
    stored,      \* the balance document of user U in the store, if any
    requests,    \* PointBalanceRepository commands sent to the store and not yet executed
    reply,       \* what the store answered to the command it executed last
    opening,     \* the balance of user U before any PointsService call
    held         \* held[i]: the PointsService method run by call i, its amount and what it read

vars == <<nextScope, kind, parent, pc, sess, store, branch, bstore, bseen, fnOut,
          result, seen, nested, caught, prop, awaiting, after, nextSession, txn,
          ended, cmds, pending, committed, calls, endCalls, lastCmd,
          collection, page, limit, pageResult, instances, errCall,
          moduleRef, tcall, closure, tresult, lastCall,
          unit, lastRead, available, inflight, applied,
          stored, requests, reply, opening, held>>

scopeVars == <<nextScope, kind, parent>>
obsVars == <<seen, bseen, after>>
dbVars == <<cmds, pending, committed>>
sessVars == <<nextSession, txn, ended>>
fanVars == <<branch, bstore>>
nestVars == <<nested, caught, prop>>
callVars == <<nestVars, awaiting>>
countVars == <<calls, endCalls>>
repoVars == <<lastCmd>>
pageVars == <<collection, page, limit, pageResult>>
errVars == <<instances, errCall>>
decoVars == <<moduleRef, tcall, closure, tresult, lastCall>>
pointVars == <<unit, lastRead>>
incVars == <<available, inflight, applied>>
balVars == <<stored, requests, reply>>
useVars == <<opening, held>>
auxVars == <<pageVars, errVars, decoVars, pointVars, incVars, balVars, useVars>>
coreVars == <<nextScope, kind, parent, pc, sess, store, branch, bstore, bseen, fnOut,
              result, seen, nested, caught, prop, awaiting, after, nextSession, txn,
              ended, cmds, pending, committed, calls, endCalls, lastCmd>>
exceptPage == <<coreVars, errVars, decoVars, pointVars, incVars, balVars, useVars>>
exceptErr == <<coreVars, pageVars, decoVars, pointVars, incVars, balVars, useVars>>
besideDeco == <<pageVars, errVars, pointVars, incVars, balVars, useVars>>
besidePoint == <<pageVars, errVars, decoVars, incVars, balVars, useVars>>
exceptInc == <<coreVars, pageVars, errVars, decoVars, pointVars, balVars, useVars>>
exceptBal == <<coreVars, pageVars, errVars, decoVars, pointVars, incVars, useVars>>
besideUse == <<pageVars, errVars, decoVars, pointVars, incVars, balVars>>

\* no repository operation is in flight
NoCmd == [op |-> "none", frame |-> 0, opt |-> NoSession, sessions |-> {}, bag |-> "none"]

CoreInit ==
    /\ nextScope = 1
    /\ kind = [i \in Scopes |-> "none"]
    /\ parent = [i \in Scopes |-> 0]
    /\ pc = [i \in Scopes |-> "idle"]
    /\ sess = [i \in Scopes |-> NoSession]
    /\ store = [f \in Frames |-> NoStore]
    /\ branch = [i \in Scopes |-> [b \in Branches |-> "none"]]
    /\ bstore = [i \in Scopes |-> [b \in Branches |-> NoStore]]
    /\ bseen = [i \in Scopes |-> {}]
    /\ fnOut = [i \in Scopes |-> None]
    /\ result = [i \in Scopes |-> None]
    /\ seen = [i \in Scopes |-> {}]
    /\ nested = [i \in Scopes |-> 0]
    /\ caught = [i \in Scopes |-> {}]
    /\ prop = [i \in Scopes |-> 0]
    /\ awaiting = [i \in Scopes |-> 0]
    /\ after = {}
    /\ nextSession = 1
    /\ txn = [s \in Sessions |-> "none"]
    /\ ended = {}
    /\ cmds = {}
    /\ pending = [s \in Sessions |-> {}]
    /\ committed = {}
    /\ calls = [i \in Scopes |-> 0]
    /\ endCalls = [i \in Scopes |-> 0]
    /\ lastCmd = NoCmd

\* findWithPagination has not been called: an empty collection, first page
PageIdle ==
    /\ collection = <<>>
    /\ page = 1
    /\ limit = 1
    /\ pageResult = [find |-> "none", count |-> "none", data |-> <<>>, total |-> 0]

\* the repository classes decorated with HandleAllDbErrors
Repos == {"PointRepository", "PointBalanceRepository"}

\* no repository has been constructed and no method called
ErrIdle ==
    /\ instances = [r \in Repos |-> 0]
    /\ errCall = [on |-> "none", method |-> "none", depth |-> 0,
                  thrown |-> "none", threw |-> FALSE, value |-> "none", logged |-> 0]

\* the registry reference is unset until bootstrap sets it; no method called
NoBinding == [this |-> "none", args |-> <<>>]
NoCall == [this |-> "none", args |-> <<>>, connection |-> "none", storage |-> "none"]

DecoIdle ==
    /\ moduleRef = "unset"
    /\ tcall = [i \in Scopes |-> NoCall]
    /\ closure = [i \in Scopes |-> NoBinding]
    /\ tresult = [i \in Scopes |-> None]
    /\ lastCall = [kind |-> "none", error |-> "none"]

\* createPointBalance has not been called and nothing has been read
NoRead == [n |-> 0, frame |-> 0, session |-> NoSession, found |-> {}]

PointIdle ==
    /\ unit = [i \in Scopes |-> "none"]
    /\ lastRead = NoRead

\* no balance mutation has been sent
IncIdle ==
    /\ available = 0
    /\ inflight = {}
    /\ applied = [initial |-> 0, sum |-> 0, sent |-> 0, overlapped |-> FALSE]

\* the four counters of a balance document, at the defaults of the schema
SchemaDefaults ==
    [totalPoints |-> 0, availablePoints |-> 0, usedPoints |-> 0, expiredPoints |-> 0]

NoBalance == [exists |-> FALSE, data |-> SchemaDefaults]
NoReply == [sent |-> 0, op |-> "none", amount |-> 0, result |-> "none", others |-> 0]
NotHeld == [method |-> "none", amount |-> 0, at |-> "none", read |-> NoBalance, version |-> 0]

\* no PointBalanceRepository command has been sent
BalIdle ==
    /\ stored = NoBalance
    /\ requests = {}
    /\ reply = NoReply

\* no PointsService call on a balance has been made
UseIdle ==
    /\ opening = NoBalance
    /\ held = [i \in Scopes |-> NotHeld]

Init ==
    CoreInit /\ PageIdle /\ ErrIdle /\ DecoIdle /\ PointIdle /\ IncIdle /\ BalIdle /\ UseIdle

Settled(i) == pc[i] \in {"resolved", "rejected"}

----------------------------------------------------------------------------
(* TransactionContextStorage *)

\* getSession(): this.contextStorage.getStore()?.session, in frame f
GetSessionShared(f) ==
    LET live == {g \in Scopes : store[g].has}
    IN  IF live = {} THEN NoSession
        ELSE store[CHOOSE g \in live : \A h \in live : h <= g].session

GetSession(f) == IF store[f].has THEN store[f].session ELSE NoSession

\* this.contextStorage.run(context, callback), called from frame p: the store
\* the callback and its continuations see
RunStoreInherited(p, context) == store[p]

RunStore(p, context) == context

\* the store of the calling frame p once run has called the callback: run
\* installs the context for the callback only and the caller keeps its own
CallerStoreEntered(p, context) == context

CallerStore(p, context) == store[p]

\* the number of invocations of the callback of i after run has called it
InvokedTwice(i) == calls[i] + 2

Invoked(i) == calls[i] + 1

\* what run(context, callback) returns when the callback settles with out
RunResultVoid(i, out) == IF out.type = "value" THEN Value(0) ELSE out

RunResult(i, out) == out

\* the store an async continuation created inside callback i starts with
BranchStoreLost(i) == store[0]

BranchStore(i) == store[i]

\* a frame p may start a call: the main chain always, a callback while it runs
CanCall(p) == p = 0 \/ (p \in Scopes /\ pc[p] = "running")

Suspend(p, i, newpc) ==
    /\ pc' = [q \in Scopes |-> IF q = i THEN newpc
                               ELSE IF q = p THEN "awaitChild" ELSE pc[q]]
    /\ awaiting' = [q \in Scopes |-> IF q = p THEN i ELSE awaiting[q]]

\* run(context, callback) called directly from frame p, with a context that
\* carries a session the caller started (withSession) or the empty context {}
RunCall(i, p, withSession) ==
    /\ i = nextScope
    /\ i \in Scopes
    /\ CanCall(p)
    /\ withSession => nextSession \in Sessions
    /\ LET s == IF withSession THEN nextSession ELSE NoSession
       IN  /\ sess' = [sess EXCEPT ![i] = s]
           /\ store' = [store EXCEPT ![i] = RunStore(p, Context(s)),
                                     ![p] = CallerStore(p, Context(s))]
           /\ nextSession' = IF withSession THEN nextSession + 1 ELSE nextSession
    /\ calls' = [calls EXCEPT ![i] = Invoked(i)]
    /\ nextScope' = i + 1
    /\ kind' = [kind EXCEPT ![i] = "raw"]
    /\ parent' = [parent EXCEPT ![i] = p]
    /\ Suspend(p, i, "work")
    /\ UNCHANGED <<auxVars, repoVars, endCalls, fanVars, obsVars, fnOut, result, nestVars, txn, ended, dbVars>>

----------------------------------------------------------------------------
(* withTransaction *)

\* withTransaction(connection, storage, fn) called from frame p: runs up to
\* the await of connection.startSession()
Enter(i, p) ==
    /\ i = nextScope
    /\ i \in Scopes
    /\ CanCall(p)
    /\ nextScope' = i + 1
    /\ kind' = [kind EXCEPT ![i] = "txn"]
    /\ parent' = [parent EXCEPT ![i] = p]
    /\ Suspend(p, i, "startSession")
    /\ UNCHANGED <<repoVars, countVars, sess, store, fanVars, obsVars, fnOut, result, nestVars,
                   sessVars, dbVars>>

Call(i, p) == Enter(i, p) /\ UNCHANGED auxVars

\* the handle startSession() resolves with
ReusedSession(i) ==
    IF GetSession(parent[i]) # NoSession THEN GetSession(parent[i]) ELSE nextSession

NewSession(i) == nextSession

\* const session = await connection.startSession()
StartSessionOkPooled(i) ==
    /\ pc[i] = "startSession"
    /\ nextSession \in Sessions
    /\ sess' = [sess EXCEPT ![i] = 1]
    /\ nextSession' = nextSession + 1
    /\ pc' = [pc EXCEPT ![i] = "acquired"]
    /\ UNCHANGED <<auxVars, repoVars, countVars, scopeVars, store, fanVars, obsVars, fnOut, result, callVars,
                   txn, ended, dbVars>>

StartSessionOk(i) ==
    /\ pc[i] = "startSession"
    /\ nextSession \in Sessions
    /\ sess' = [sess EXCEPT ![i] = NewSession(i)]
    /\ nextSession' = nextSession + 1
    /\ pc' = [pc EXCEPT ![i] = "acquired"]
    /\ UNCHANGED <<auxVars, repoVars, countVars, scopeVars, store, fanVars, obsVars, fnOut, result, callVars,
                   txn, ended, dbVars>>

\* startSession() rejects: the error leaves withTransaction before the try
StartSessionFailInTry(i) ==
    /\ pc[i] = "startSession"
    /\ pc' = [pc EXCEPT ![i] = "rejected"]
    /\ result' = [result EXCEPT ![i] = SessionErr]
    /\ endCalls' = [endCalls EXCEPT ![i] = @ + 1]
    /\ UNCHANGED <<auxVars, repoVars, calls, scopeVars, sess, store, fanVars, obsVars, fnOut, callVars,
                   sessVars, dbVars>>

StartSessionFail(i) ==
    /\ pc[i] = "startSession"
    /\ pc' = [pc EXCEPT ![i] = "rejected"]
    /\ result' = [result EXCEPT ![i] = SessionErr]
    /\ UNCHANGED <<auxVars, repoVars, countVars, scopeVars, sess, store, fanVars, obsVars, fnOut, callVars,
                   sessVars, dbVars>>

\* session.withTransaction(async () => storage.run({ session }, fn)):
\* the transaction starts, run installs the context and fn starts
OpenTransactionNoTxn(i) ==
    /\ pc[i] = "acquired"
    /\ store' = [store EXCEPT ![i] = RunStore(parent[i], Context(sess[i])),
                              ![parent[i]] = CallerStore(parent[i], Context(sess[i]))]
    /\ calls' = [calls EXCEPT ![i] = Invoked(i)]
    /\ pc' = [pc EXCEPT ![i] = "work"]
    /\ UNCHANGED <<auxVars, repoVars, endCalls, scopeVars, sess, fanVars, obsVars, fnOut, result, callVars,
                   sessVars, dbVars>>

OpenTransaction(i) ==
    /\ pc[i] = "acquired"
    /\ txn' = [txn EXCEPT ![sess[i]] = "open"]
    /\ store' = [store EXCEPT ![i] = RunStore(parent[i], Context(sess[i])),
                              ![parent[i]] = CallerStore(parent[i], Context(sess[i]))]
    /\ calls' = [calls EXCEPT ![i] = Invoked(i)]
    /\ pc' = [pc EXCEPT ![i] = "work"]
    /\ UNCHANGED <<auxVars, repoVars, endCalls, scopeVars, sess, fanVars, obsVars, fnOut, result, callVars,
                   nextSession, ended, dbVars>>

\* fn throws synchronously inside run: the async arrow turns it into a rejection
OpenTransactionThrow(i) ==
    /\ pc[i] = "acquired"
    /\ txn' = [txn EXCEPT ![sess[i]] = "open"]
    /\ pc' = [pc EXCEPT ![i] = "fnSettled"]
    /\ fnOut' = [fnOut EXCEPT ![i] = Error(i)]
    /\ calls' = [calls EXCEPT ![i] = Invoked(i)]
    /\ UNCHANGED <<auxVars, repoVars, endCalls, scopeVars, sess, store, fanVars, obsVars, result, callVars,
                   nextSession, ended, dbVars>>

\* the transaction cannot be opened: fn is not called
OpenTransactionFail(i) ==
    /\ pc[i] = "acquired"
    /\ pc' = [pc EXCEPT ![i] = "finally"]
    /\ result' = [result EXCEPT ![i] = OpenErr]
    /\ UNCHANGED <<auxVars, repoVars, countVars, scopeVars, sess, store, fanVars, obsVars, fnOut, callVars,
                   sessVars, dbVars>>

----------------------------------------------------------------------------
(* the work function / callback of scope i *)

\* BaseRepository.attachSession: the session the command options carry
AttachNothing(f) == NoSession

AttachSession(f) == GetSession(f)

\* the callback reads storage.getSession() and calls BaseRepository.create
\* (attachSession, then new this.model(doc).save(options)): when it starts and
\* again whenever a nested call has returned to it
Work(i) ==
    /\ pc[i] = "work"
    /\ pc' = [pc EXCEPT ![i] = "running"]
    /\ seen' = [seen EXCEPT ![i] = @ \cup {<<nested[i], GetSession(i)>>}]
    /\ LET s == AttachSession(i)
           doc == [by |-> i, n |-> nested[i], session |-> s]
       IN  /\ cmds' = cmds \cup {doc}
           /\ IF s # NoSession /\ s \in ended
              THEN UNCHANGED <<pending, committed>>
              ELSE IF s # NoSession /\ txn[s] = "open"
              THEN /\ pending' = [pending EXCEPT ![s] = @ \cup {doc}]
                   /\ UNCHANGED committed
              ELSE /\ committed' = committed \cup {doc}
                   /\ UNCHANGED pending
    /\ UNCHANGED <<auxVars, repoVars, countVars, scopeVars, sess, store, fanVars, bseen, after, fnOut, result,
                   callVars, sessVars>>

\* await Promise.all([branch a, branch b]): each branch is an async function
\* that suspends and calls getSession() when it resumes
FanOut(i) ==
    /\ pc[i] = "running"
    /\ Cardinality({j \in Scopes : branch[j]["a"] # "none"}) < MaxFan
    /\ branch[i]["a"] = "none"
    /\ branch' = [branch EXCEPT ![i] = [b \in Branches |-> "pending"]]
    /\ bstore' = [bstore EXCEPT ![i] = [b \in Branches |-> BranchStore(i)]]
    /\ pc' = [pc EXCEPT ![i] = "awaitAll"]
    /\ UNCHANGED <<auxVars, repoVars, countVars, scopeVars, sess, store, obsVars, fnOut, result, callVars,
                   sessVars, dbVars>>

BranchResume(i, b) ==
    /\ branch[i][b] = "pending"
    /\ branch' = [branch EXCEPT ![i][b] = "done"]
    /\ bseen' = [bseen EXCEPT ![i] =
                    @ \cup {IF bstore[i][b].has THEN bstore[i][b].session ELSE NoSession}]
    /\ UNCHANGED <<auxVars, repoVars, countVars, scopeVars, pc, sess, store, bstore, seen, after, fnOut, result,
                   callVars, sessVars, dbVars>>

JoinAll(i) ==
    /\ pc[i] = "awaitAll"
    /\ \A b \in Branches : branch[i][b] = "done"
    /\ pc' = [pc EXCEPT ![i] = "running"]
    /\ UNCHANGED <<auxVars, repoVars, countVars, scopeVars, sess, store, fanVars, obsVars, fnOut, result,
                   callVars, sessVars, dbVars>>

\* the callback's promise settles with out; run() returns that very promise,
\* so a direct run call settles with it, and the driver decides for withTransaction
FnSettle(i, out) ==
    /\ fnOut' = [fnOut EXCEPT ![i] = out]
    /\ IF kind[i] = "raw"
       THEN /\ pc' = [pc EXCEPT ![i] = IF out.type = "value" THEN "resolved" ELSE "rejected"]
            /\ result' = [result EXCEPT ![i] = RunResult(i, out)]
       ELSE /\ pc' = [pc EXCEPT ![i] = "fnSettled"]
            /\ UNCHANGED result

FnResolve(i) ==
    /\ pc[i] = "running"
    /\ FnSettle(i, Value(i))
    /\ UNCHANGED <<auxVars, repoVars, countVars, scopeVars, sess, store, fanVars, obsVars, callVars, sessVars,
                   dbVars>>

FnReject(i) ==
    /\ pc[i] = "running"
    /\ FnSettle(i, Error(i))
    /\ UNCHANGED <<auxVars, repoVars, countVars, scopeVars, sess, store, fanVars, obsVars, callVars, sessVars,
                   dbVars>>

\* what an awaiting callback receives when the nested call j rejected
RethrownWrapped(j) == Error(0)

Rethrown(j) == result[j]

\* the nested call the callback awaits has resolved
ChildReturn(p) ==
    /\ pc[p] = "awaitChild"
    /\ awaiting[p] # 0
    /\ pc[awaiting[p]] = "resolved"
    /\ pc' = [pc EXCEPT ![p] = "work"]
    /\ nested' = [nested EXCEPT ![p] = @ + 1]
    /\ awaiting' = [awaiting EXCEPT ![p] = 0]
    /\ UNCHANGED <<auxVars, repoVars, countVars, scopeVars, sess, store, fanVars, obsVars, fnOut, result,
                   caught, prop, sessVars, dbVars>>

\* the nested call rejected and the callback has no catch around it
ChildThrow(p) ==
    /\ pc[p] = "awaitChild"
    /\ awaiting[p] # 0
    /\ pc[awaiting[p]] = "rejected"
    /\ FnSettle(p, Rethrown(awaiting[p]))
    /\ prop' = [prop EXCEPT ![p] = awaiting[p]]
    /\ awaiting' = [awaiting EXCEPT ![p] = 0]
    /\ UNCHANGED <<auxVars, repoVars, countVars, scopeVars, sess, store, fanVars, obsVars, nested, caught,
                   sessVars, dbVars>>

\* the nested call rejected and the callback catches the error
ChildCatch(p) ==
    /\ pc[p] = "awaitChild"
    /\ awaiting[p] # 0
    /\ pc[awaiting[p]] = "rejected"
    /\ pc' = [pc EXCEPT ![p] = "work"]
    /\ nested' = [nested EXCEPT ![p] = @ + 1]
    /\ caught' = [caught EXCEPT ![p] = @ \cup {awaiting[p]}]
    /\ awaiting' = [awaiting EXCEPT ![p] = 0]
    /\ UNCHANGED <<auxVars, repoVars, countVars, scopeVars, sess, store, fanVars, obsVars, fnOut, result,
                   prop, sessVars, dbVars>>

\* the main chain calls getSession() after its call i has returned to it
CallerGetSession(i) ==
    /\ parent[i] = 0
    /\ Settled(i)
    /\ after = {}
    /\ after' = {<<i, GetSession(0)>>}
    /\ UNCHANGED <<auxVars, repoVars, countVars, scopeVars, pc, sess, store, fanVars, seen, bseen, fnOut, result,
                   callVars, sessVars, dbVars>>

----------------------------------------------------------------------------
(* withTransaction, after the work function has settled *)

\* the value session.withTransaction resolves with
TxnResultOfCommit(i) == Value(0)

TxnResult(i) == fnOut[i]

\* the uncommitted writes left in the store once the transaction of session s
\* has been aborted: only those of s are discarded
RolledBackAll(s) == [t \in Sessions |-> {}]

RolledBack(s) == [pending EXCEPT ![s] = {}]

\* fn rejected (or threw): the transaction aborts and the error leaves the try
AbortKeepsWrites(i) ==
    /\ pc[i] = "fnSettled"
    /\ fnOut[i].type # "value"
    /\ txn' = [txn EXCEPT ![sess[i]] = "aborted"]
    /\ committed' = committed \cup pending[sess[i]]
    /\ pending' = [pending EXCEPT ![sess[i]] = {}]
    /\ result' = [result EXCEPT ![i] = fnOut[i]]
    /\ pc' = [pc EXCEPT ![i] = "finally"]
    /\ UNCHANGED <<auxVars, repoVars, countVars, scopeVars, sess, store, fanVars, obsVars, fnOut, callVars,
                   nextSession, ended, cmds>>

Abort(i) ==
    /\ pc[i] = "fnSettled"
    /\ fnOut[i].type # "value"
    /\ txn' = [txn EXCEPT ![sess[i]] = "aborted"]
    /\ pending' = RolledBack(sess[i])
    /\ result' = [result EXCEPT ![i] = fnOut[i]]
    /\ pc' = [pc EXCEPT ![i] = "finally"]
    /\ UNCHANGED <<auxVars, repoVars, countVars, scopeVars, sess, store, fanVars, obsVars, fnOut, callVars,
                   nextSession, ended, cmds, committed>>

\* fn resolved: the transaction commits; `return result`
CommitPoisoned(i) ==
    /\ pc[i] = "fnSettled"
    /\ fnOut[i].type = "value"
    /\ txn' = [txn EXCEPT ![sess[i]] = IF caught[i] = {} THEN "committed" ELSE "aborted"]
    /\ committed' = IF caught[i] = {} THEN committed \cup pending[sess[i]] ELSE committed
    /\ pending' = [pending EXCEPT ![sess[i]] = {}]
    /\ result' = [result EXCEPT ![i] = IF caught[i] = {} THEN TxnResult(i)
                                      ELSE result[CHOOSE j \in caught[i] : TRUE]]
    /\ pc' = [pc EXCEPT ![i] = "finally"]
    /\ UNCHANGED <<auxVars, repoVars, countVars, scopeVars, sess, store, fanVars, obsVars, fnOut, callVars,
                   nextSession, ended, cmds>>

Commit(i) ==
    /\ pc[i] = "fnSettled"
    /\ fnOut[i].type = "value"
    /\ txn' = [txn EXCEPT ![sess[i]] = "committed"]
    /\ committed' = committed \cup pending[sess[i]]
    /\ pending' = [pending EXCEPT ![sess[i]] = {}]
    /\ result' = [result EXCEPT ![i] = TxnResult(i)]
    /\ pc' = [pc EXCEPT ![i] = "finally"]
    /\ UNCHANGED <<auxVars, repoVars, countVars, scopeVars, sess, store, fanVars, obsVars, fnOut, callVars,
                   nextSession, ended, cmds>>

\* fn resolved but the commit fails: the commit error leaves the try
CommitFail(i) ==
    /\ pc[i] = "fnSettled"
    /\ fnOut[i].type = "value"
    /\ txn' = [txn EXCEPT ![sess[i]] = "aborted"]
    /\ pending' = RolledBack(sess[i])
    /\ result' = [result EXCEPT ![i] = CommitErr]
    /\ pc' = [pc EXCEPT ![i] = "finally"]
    /\ UNCHANGED <<auxVars, repoVars, countVars, scopeVars, sess, store, fanVars, obsVars, fnOut, callVars,
                   nextSession, ended, cmds, committed>>

\* finally { session.endSession() }, then the promise of withTransaction settles
FinallyOnSuccessOnly(i) ==
    /\ pc[i] = "finally"
    /\ ended' = IF result[i].type = "value" THEN ended \cup {sess[i]} ELSE ended
    /\ endCalls' = [endCalls EXCEPT ![i] = IF result[i].type = "value" THEN @ + 1 ELSE @]
    /\ pc' = [pc EXCEPT ![i] = IF result[i].type = "value" THEN "resolved" ELSE "rejected"]
    /\ UNCHANGED <<auxVars, repoVars, calls, scopeVars, sess, store, fanVars, obsVars, fnOut, result,
                   callVars, nextSession, txn, dbVars>>

Finally(i) ==
    /\ pc[i] = "finally"
    /\ ended' = ended \cup {sess[i]}
    /\ endCalls' = [endCalls EXCEPT ![i] = @ + 1]
    /\ pc' = [pc EXCEPT ![i] = IF result[i].type = "value" THEN "resolved" ELSE "rejected"]
    /\ UNCHANGED <<auxVars, repoVars, calls, scopeVars, sess, store, fanVars, obsVars, fnOut, result,
                   callVars, nextSession, txn, dbVars>>

----------------------------------------------------------------------------

Next ==
    \/ \E i \in Scopes, p \in Frames : Call(i, p)
    \/ \E i \in Scopes, p \in Frames, w \in BOOLEAN : RunCall(i, p, w)
    \/ \E i \in Scopes : StartSessionOk(i)
    \/ \E i \in Scopes : StartSessionFail(i)
    \/ \E i \in Scopes : OpenTransaction(i)
    \/ \E i \in Scopes : OpenTransactionThrow(i)
    \/ \E i \in Scopes : OpenTransactionFail(i)
    \/ \E i \in Scopes : Work(i)
    \/ \E i \in Scopes : FanOut(i)
    \/ \E i \in Scopes, b \in Branches : BranchResume(i, b)
    \/ \E i \in Scopes : JoinAll(i)
    \/ \E i \in Scopes : FnResolve(i)
    \/ \E i \in Scopes : FnReject(i)
    \/ \E p \in Scopes : ChildReturn(p)
    \/ \E p \in Scopes : ChildThrow(p)
    \/ \E p \in Scopes : ChildCatch(p)
    \/ \E i \in Scopes : CallerGetSession(i)
    \/ \E i \in Scopes : Commit(i)
    \/ \E i \in Scopes : CommitFail(i)
    \/ \E i \in Scopes : Abort(i)
    \/ \E i \in Scopes : Finally(i)

Spec == Init /\ [][Next]_vars

\* every step a withTransaction call i can take by itself once it has been
\* started: replies of the store, continuations of awaits, and the settling of
\* its work function
Step(i) ==
    \/ StartSessionOk(i)
    \/ StartSessionFail(i)
    \/ OpenTransaction(i)
    \/ OpenTransactionThrow(i)
    \/ OpenTransactionFail(i)
    \/ Work(i)
    \/ FnResolve(i)
    \/ FnReject(i)
    \/ ChildReturn(i)
    \/ ChildThrow(i)
    \/ ChildCatch(i)
    \/ Commit(i)
    \/ CommitFail(i)
    \/ Abort(i)
    \/ Finally(i)

\* withTransaction calls made by the main chain and by work functions
FairNext ==
    \/ \E i \in Scopes, p \in Frames : Call(i, p)
    \/ \E i \in Scopes : Step(i)

\* the event loop runs every continuation that is ready, the store answers
\* every request, and a work function that can settle eventually does
FairSpec == Init /\ [][FairNext]_vars /\ \A i \in Scopes : WF_vars(Step(i))

----------------------------------------------------------------------------
(* BaseRepository, PointRepository, PointBalanceRepository *)

\* a session handle the caller started itself and passes in the options bag
ExplicitSession == MaxInv + 1

OptionOps == {"create", "aggregate", "count", "updateById", "updateOne", "updateMany",
              "deleteById", "deleteOne", "deleteMany"}
QueryOps == {"findById", "findOne", "find"}
BaseOps == OptionOps \cup QueryOps \cup {"findWithPagination"}
PointOps == {"Point.findByUserId", "findExpiringPoints", "findExpitedPoints"}
PointBalanceOps == {"createUserBalance", "PointBalance.findByUserId", "earnPoint",
                    "usePoint", "expirePoint", "exist", "deleteByUserId"}
RepoOps == BaseOps \cup PointOps \cup PointBalanceOps

\* attachSession(options) when options may itself carry the session o:
\* session ? { ...baseOptions, session } : baseOptions
AttachOptions(f, o) == IF AttachSession(f) # NoSession THEN AttachSession(f) ELSE o

\* applySessionToQuery(query): query.session(session) when there is one
ApplySessionCached(f) ==
    LET earlier == {d.session : d \in cmds} \ {NoSession}
    IN  IF earlier # {} THEN CHOOSE e \in earlier : TRUE ELSE GetSession(f)

ApplySessionToQuery(f) == GetSession(f)

\* the sessions carried by the store commands that operation op issues when
\* it is called in frame f with the session o in its options bag
CmdSessions(f, op, o) ==
    IF op \in OptionOps THEN {AttachOptions(f, o)}
    ELSE IF op \in QueryOps THEN {ApplySessionToQuery(f)}
    ELSE IF op = "findWithPagination"
         THEN {ApplySessionToQuery(f)} \cup {ApplySessionToQuery(f)}
    ELSE IF op \in PointOps THEN {ApplySessionToQuery(f)}
    ELSE IF op \in {"createUserBalance", "deleteByUserId"} THEN {AttachOptions(f, NoSession)}
    ELSE IF op = "PointBalance.findByUserId" THEN {ApplySessionToQuery(f)}
    ELSE IF op \in {"earnPoint", "usePoint", "expirePoint"} THEN {AttachOptions(f, NoSession)}
    ELSE {NoSession}

\* what becomes of the caller's options bag (o # NoSession: a bag was given):
\* the operations built on attachSession hand it to the store command, merged
\* with the session; findById, findOne and find never read their options
CmdBag(op, o) ==
    IF o = NoSession THEN "none"
    ELSE IF op \in OptionOps THEN "merged"
    ELSE "dropped"

\* a repository method is called from the main chain or from a running
\* callback; only the generic operations take an options bag
RepoOp(f, op, o) ==
    /\ f = 0 \/ (f \in Scopes /\ pc[f] = "running")
    /\ o # NoSession => op \in OptionOps \cup QueryOps
    /\ lastCmd' = [op |-> op, frame |-> f, opt |-> o, sessions |-> CmdSessions(f, op, o),
                   bag |-> CmdBag(op, o)]
    /\ UNCHANGED <<auxVars, scopeVars, pc, sess, store, fanVars, obsVars, fnOut, result, callVars,
                   sessVars, dbVars, countVars>>

\* the store has answered and the operation's promise settles
RepoReturn ==
    /\ lastCmd # NoCmd
    /\ lastCmd' = NoCmd
    /\ UNCHANGED <<auxVars, scopeVars, pc, sess, store, fanVars, obsVars, fnOut, result, callVars,
                   sessVars, dbVars, countVars>>

\* one chain at a time uses the shared repository instances, from the main
\* chain, inside run and inside withTransaction
RepoNext ==
    \/ /\ lastCmd = NoCmd
       /\ \/ \E i \in Scopes, p \in Frames : Call(i, p)
          \/ \E i \in Scopes, p \in Frames, w \in BOOLEAN : RunCall(i, p, w)
          \/ \E i \in Scopes : StartSessionOk(i)
          \/ \E i \in Scopes : OpenTransaction(i)
          \/ \E i \in Scopes : Work(i)
          \/ \E i \in Scopes : FnResolve(i)
          \/ \E p \in Scopes : ChildReturn(p)
          \/ \E i \in Scopes : Commit(i)
          \/ \E i \in Scopes : Finally(i)
          \/ \E f \in Frames, op \in RepoOps, o \in {NoSession, ExplicitSession} :
                RepoOp(f, op, o)
    \/ RepoReturn

RepoSpec == Init /\ [][RepoNext]_vars

----------------------------------------------------------------------------
(* vocabulary of the properties *)

IsTxn(i) == kind[i] = "txn"
Rejects(r) == r.type \notin {"none", "value"}
InRun(i) == pc[i] \in {"work", "running", "awaitChild", "awaitAll"}
OwnDocs(i) == {d \in cmds : d.by = i}
SessionDocs(s) == {d \in cmds : d.session = s}
ObservedAfter(i) == {o[2] : o \in {a \in after : a[1] = i}}

\* scope j runs in the dynamic extent of the callback of scope i
RECURSIVE InExtent(_, _)
InExtent(j, i) ==
    \/ j = i
    \/ /\ kind[j] # "none"
       /\ parent[j] # 0
       /\ InExtent(parent[j], i)

----------------------------------------------------------------------------

\* C1: a withTransaction call whose work function resolved with v and whose
\* commit succeeded resolves with exactly v, and getSession() of the main chain
\* after the call has returned is undefined.
C1_ResolvesWithFnValue ==
    \A i \in Scopes :
        (IsTxn(i) /\ Settled(i) /\ fnOut[i].type = "value" /\ txn[sess[i]] = "committed")
        => /\ pc[i] = "resolved"
           /\ result[i] = fnOut[i]
           /\ result[i] = Value(i)
           /\ ObservedAfter(i) \subseteq {NoSession}

C1_Witness ==
    \E i \in Scopes :
        IsTxn(i) /\ pc[i] = "resolved" /\ OwnDocs(i) # {} /\ ObservedAfter(i) # {}

\* C2: a withTransaction call whose work function threw or rejected with e
\* rejects with the identical e, its transaction is aborted with none of its
\* writes durable, and getSession() of the main chain afterwards is undefined.
C2_RejectsWithFnError ==
    \A i \in Scopes :
        (IsTxn(i) /\ Settled(i) /\ Rejects(fnOut[i]))
        => /\ pc[i] = "rejected"
           /\ result[i] = fnOut[i]
           /\ txn[sess[i]] = "aborted"
           /\ SessionDocs(sess[i]) \cap committed = {}
           /\ ObservedAfter(i) \subseteq {NoSession}

C2_Witness ==
    \E i \in Scopes :
        /\ IsTxn(i) /\ pc[i] = "rejected"
        /\ fnOut[i] = Error(i)
        /\ OwnDocs(i) # {}
        /\ ObservedAfter(i) # {}

\* C3: whenever the promise of a withTransaction call that acquired a session
\* has settled (work function resolved, rejected or threw, the transaction
\* could not be opened, the commit failed), its session has been ended.
C3_SessionEndedOnExit ==
    \A i \in Scopes :
        (IsTxn(i) /\ Settled(i) /\ sess[i] # NoSession) => sess[i] \in ended

C3_Witness ==
    \E i \in Scopes :
        /\ IsTxn(i) /\ pc[i] = "rejected"
        /\ result[i] = CommitErr
        /\ sess[i] \in ended

\* C4 as stated: every create issued anywhere in the dynamic extent of a
\* top-level withTransaction work function carries that invocation's session,
\* and all of them are durable if the invocation resolved and none if it rejected.
C4_WholeExtentOneTransaction ==
    \A i \in Scopes :
        (IsTxn(i) /\ parent[i] = 0 /\ Settled(i) /\ sess[i] # NoSession)
        => LET docs == {d \in cmds : InExtent(d.by, i)}
           IN  /\ \A d \in docs : d.session = sess[i]
               /\ pc[i] = "resolved" => docs \subseteq committed
               /\ pc[i] = "rejected" => docs \cap committed = {}

\* C4 amended: every create the work function itself issues through the
\* repository (outside nested run / withTransaction extents) carries its own
\* invocation's session; these writes stay invisible while the transaction is
\* open, are all durable once the invocation resolved and none is once it
\* rejected.
C4_OwnCallsJoinTransaction ==
    \A i \in Scopes :
        (IsTxn(i) /\ sess[i] # NoSession)
        => /\ \A d \in OwnDocs(i) : d.session = sess[i]
           /\ txn[sess[i]] = "open" => /\ OwnDocs(i) \subseteq pending[sess[i]]
                                       /\ OwnDocs(i) \cap committed = {}
           /\ pc[i] = "resolved" => OwnDocs(i) \subseteq committed
           /\ pc[i] = "rejected" => OwnDocs(i) \cap committed = {}

C4_Witness ==
    \E i \in Scopes :
        /\ IsTxn(i) /\ parent[i] = 0 /\ pc[i] = "resolved"
        /\ Cardinality(OwnDocs(i)) >= 2
        /\ OwnDocs(i) \subseteq committed

\* C5: concurrently running withTransaction invocations hold different
\* sessions, getSession() inside each work function (before and after every
\* await, and in its fan-out branches) returns that invocation's own session,
\* and each invocation that resolves does so with its own value.
C5_ConcurrentOwnSession ==
    \A i \in Scopes :
        IsTxn(i)
        => /\ \A o \in seen[i] : o[2] = sess[i]
           /\ \A s \in bseen[i] : s = sess[i]
           /\ \A j \in Scopes \ {i} :
                 (IsTxn(j) /\ sess[i] # NoSession) => sess[j] # sess[i]
           /\ pc[i] = "resolved" => result[i] = Value(i)

C5_Witness ==
    \E i, j \in Scopes :
        /\ i # j /\ IsTxn(i) /\ IsTxn(j)
        /\ parent[i] = 0 /\ parent[j] = 0
        /\ pc[i] = "running" /\ pc[j] = "running"
        /\ seen[i] # {} /\ seen[j] # {}

\* C6: in every state getSession() in the main chain is undefined, and in the
\* callback of every open run it is the session of that run's own context,
\* whatever other extents are open.
C6_InnermostContext ==
    /\ GetSession(0) = NoSession
    /\ \A o \in after : o[2] = NoSession
    /\ \A i \in Scopes :
          /\ InRun(i) => GetSession(i) = sess[i]
          /\ \A o \in seen[i] : o[2] = sess[i]

C6_Witness ==
    \E i, j \in Scopes :
        /\ kind[i] = "raw" /\ IsTxn(j)
        /\ parent[i] = 0 /\ parent[j] = 0
        /\ InRun(i) /\ InRun(j)
        /\ sess[i] # NoSession
        /\ seen[i] # {} /\ seen[j] # {}

\* C7: inside the extent of run(context, callback), getSession() returns
\* context.session in the callback and in every branch of its fan-out when the
\* branch resumes, also while another chain is running.
C7_ContextAcrossAwait ==
    \A i \in Scopes :
        /\ \A b \in Branches :
              branch[i][b] # "none" => bstore[i][b] = Context(sess[i])
        /\ \A s \in bseen[i] : s = sess[i]
        /\ \A o \in seen[i] : o[2] = sess[i]

C7_Witness ==
    \E i, j \in Scopes :
        /\ i # j
        /\ kind[i] = "raw" /\ sess[i] # NoSession
        /\ \A b \in Branches : branch[i][b] = "done"
        /\ bseen[i] # {}
        /\ pc[i] = "running"
        /\ parent[j] = 0 /\ InRun(j) /\ sess[j] # NoSession

\* C8: a withTransaction called inside the callback of another scope gets a
\* session different from the outer one, its work function sees that new
\* session, and the outer callback sees its own session before the nested call
\* and after it has returned.
C8_NestedOwnSession ==
    \A j \in Scopes :
        (IsTxn(j) /\ parent[j] # 0 /\ sess[j] # NoSession)
        => /\ sess[j] # sess[parent[j]]
           /\ \A o \in seen[j] : o[2] = sess[j] /\ o[2] # sess[parent[j]]
           /\ \A o \in seen[parent[j]] : o[2] = sess[parent[j]]

C8_Witness ==
    \E j \in Scopes :
        /\ IsTxn(j) /\ parent[j] # 0 /\ Settled(j)
        /\ seen[j] # {}
        /\ sess[parent[j]] # NoSession
        /\ \E o \in seen[parent[j]] : o[1] = 0
        /\ \E o \in seen[parent[j]] : o[1] >= 1

\* C9: a nested withTransaction that fails rejects with the inner error; an
\* outer work function that does not catch it rejects with that same error and
\* so does its withTransaction, and one that catches it still sees its own
\* session.
C9_InnerFailurePropagates ==
    \A p \in Scopes :
        /\ \A j \in Scopes :
              (IsTxn(j) /\ parent[j] = p /\ Settled(j) /\ Rejects(fnOut[j]))
              => result[j] = fnOut[j]
        /\ (prop[p] # 0 /\ IsTxn(prop[p]))
           => /\ fnOut[p] = result[prop[p]]
              /\ (IsTxn(p) /\ Settled(p)) => /\ pc[p] = "rejected"
                                             /\ result[p] = result[prop[p]]
        /\ caught[p] # {} => \A o \in seen[p] : o[2] = sess[p]

C9_Witness ==
    \E p \in Scopes :
        /\ IsTxn(p)
        /\ \E j \in caught[p] : IsTxn(j) /\ result[j] = Error(j)
        /\ \E o \in seen[p] : o[1] >= 1

\* C10: an outer withTransaction whose work function caught the rejection of a
\* nested withTransaction and then resolved commits (unless the store itself
\* fails the commit): it resolves, its own writes are durable and the writes of
\* the nested transaction are not.
C10_OuterCommitsAfterCaughtFailure ==
    \A p \in Scopes :
        (IsTxn(p) /\ Settled(p) /\ fnOut[p].type = "value" /\ result[p] # CommitErr)
        => \A j \in caught[p] :
              IsTxn(j)
              => /\ pc[p] = "resolved"
                 /\ txn[sess[p]] = "committed"
                 /\ OwnDocs(p) \subseteq committed
                 /\ sess[j] # NoSession => SessionDocs(sess[j]) \cap committed = {}

C10_Witness ==
    \E p \in Scopes :
        /\ IsTxn(p) /\ pc[p] = "resolved"
        /\ \E j \in caught[p] : IsTxn(j) /\ OwnDocs(j) # {}
        /\ Cardinality(OwnDocs(p)) >= 2

----------------------------------------------------------------------------
(* the lifecycle of one withTransaction invocation *)

\* where invocation i stands: before startSession() has resolved, holding a
\* session, inside the open transaction, after the commit or the abort, and
\* after endSession()
Phase(i) ==
    IF sess[i] = NoSession THEN "Idle"
    ELSE IF sess[i] \in ended THEN "SessionEnded"
    ELSE IF txn[sess[i]] = "open" THEN "TransactionOpen"
    ELSE IF txn[sess[i]] = "committed" THEN "Committed"
    ELSE IF txn[sess[i]] = "aborted" THEN "Aborted"
    ELSE "SessionAcquired"

PhaseOrder ==
    { <<"Idle", "SessionAcquired">>,
      <<"SessionAcquired", "TransactionOpen">>,
      <<"TransactionOpen", "Committed">>,
      <<"TransactionOpen", "Aborted">>,
      <<"Committed", "SessionEnded">>,
      <<"Aborted", "SessionEnded">> }

\* C11 as stated: every step of a withTransaction invocation either stays in
\* its phase or moves along Idle -> SessionAcquired -> TransactionOpen ->
\* Committed or Aborted -> SessionEnded, skipping none.
C11_NoPhaseSkipped ==
    [][\A i \in Scopes :
          (kind'[i] = "txn" /\ Phase(i)' # Phase(i))
          => <<Phase(i), Phase(i)'>> \in PhaseOrder]_vars

\* C11 amended: the phases are passed in that order, except that an invocation
\* whose transaction could not be opened goes from SessionAcquired straight to
\* SessionEnded; a settled invocation that acquired a session is in
\* SessionEnded, reached after exactly one of commit, abort or failed open, and
\* one whose session acquisition failed never leaves Idle.
C11_PhaseOrder ==
    /\ [][\A i \in Scopes :
             (kind'[i] = "txn" /\ Phase(i)' # Phase(i))
             => \/ <<Phase(i), Phase(i)'>> \in PhaseOrder
                \/ /\ Phase(i) = "SessionAcquired"
                   /\ Phase(i)' = "SessionEnded"
                   /\ calls[i] = 0
                   /\ result[i] = OpenErr]_vars
    /\ [](\A i \in Scopes :
             (IsTxn(i) /\ Settled(i))
             => /\ Phase(i) \in {"Idle", "SessionEnded"}
                /\ Phase(i) = "Idle" => result[i] = SessionErr
                /\ (Phase(i) = "SessionEnded" /\ calls[i] # 0)
                   => txn[sess[i]] \in {"committed", "aborted"}
                /\ (Phase(i) = "SessionEnded" /\ calls[i] = 0)
                   => txn[sess[i]] = "none" /\ result[i] = OpenErr)

C11_Witness ==
    \E i, j \in Scopes :
        /\ IsTxn(i) /\ Phase(i) = "SessionEnded" /\ txn[sess[i]] = "committed"
        /\ IsTxn(j) /\ Phase(j) = "SessionEnded" /\ calls[j] = 0

----------------------------------------------------------------------------
(* invocations of the work function *)

\* C12 as stated: every withTransaction invocation that acquired a session
\* has, once settled, invoked its work function exactly once.
C12_FnInvokedExactlyOnce ==
    \A i \in Scopes :
        (IsTxn(i) /\ Settled(i) /\ sess[i] # NoSession) => calls[i] = 1

\* C12 amended: the work function is invoked once for the transaction that is
\* opened for the invocation and never outside it: exactly once when the
\* transaction opens, whether it then resolves or rejects, and not at all
\* when the session or the transaction could not be obtained.
C12_FnInvokedOncePerTransaction ==
    \A i \in Scopes :
        IsTxn(i)
        => /\ calls[i] <= 1
           /\ sess[i] = NoSession => calls[i] = 0
           /\ sess[i] # NoSession => (calls[i] = 1 <=> txn[sess[i]] # "none")
           /\ fnOut[i] # None => calls[i] = 1
           /\ seen[i] # {} => calls[i] = 1

C12_Witness ==
    \E i, j \in Scopes :
        /\ IsTxn(i) /\ pc[i] = "resolved" /\ calls[i] = 1
        /\ IsTxn(j) /\ pc[j] = "rejected" /\ fnOut[j] = Error(j) /\ calls[j] = 1

----------------------------------------------------------------------------
(* failure to acquire a session *)

\* C13: a withTransaction call whose startSession() failed rejects with that
\* very error, its work function was never invoked, no context was installed
\* for it, it issued no command and it never called endSession.
C13_SessionFailurePropagates ==
    \A i \in Scopes :
        (IsTxn(i) /\ Settled(i) /\ sess[i] = NoSession)
        => /\ pc[i] = "rejected"
           /\ result[i] = SessionErr
           /\ calls[i] = 0
           /\ fnOut[i] = None
           /\ ~store[i].has
           /\ seen[i] = {}
           /\ OwnDocs(i) = {}
           /\ endCalls[i] = 0

C13_Witness ==
    \E i \in Scopes :
        /\ IsTxn(i) /\ pc[i] = "rejected"
        /\ sess[i] = NoSession
        /\ result[i] = SessionErr
        /\ ObservedAfter(i) # {}

----------------------------------------------------------------------------
(* concurrent invocations, one of which fails *)

\* C14: when one of two withTransaction calls made by the main chain has
\* rejected, its sibling still observes only its own session, keeps its
\* uncommitted writes while it runs and, if its work function resolves (and the
\* store does not fail the commit), commits and resolves with its own value.
C14_SiblingsUnaffectedByFailure ==
    \A i, j \in Scopes :
        (/\ i # j
         /\ IsTxn(i) /\ IsTxn(j)
         /\ parent[i] = 0 /\ parent[j] = 0
         /\ pc[j] = "rejected")
        => /\ \A o \in seen[i] : o[2] = sess[i]
           /\ (InRun(i) \/ pc[i] = "fnSettled")
              => txn[sess[i]] = "open" /\ OwnDocs(i) \subseteq pending[sess[i]]
           /\ (Settled(i) /\ fnOut[i].type = "value" /\ result[i] # CommitErr)
              => /\ pc[i] = "resolved"
                 /\ result[i] = Value(i)
                 /\ txn[sess[i]] = "committed"
                 /\ OwnDocs(i) # {}
                 /\ OwnDocs(i) \subseteq committed

\* the sibling that resolved was called first and acquired its session last,
\* so the two calls were in flight together
C14_Witness ==
    \E i, j \in Scopes :
        /\ i < j
        /\ IsTxn(i) /\ IsTxn(j)
        /\ parent[i] = 0 /\ parent[j] = 0
        /\ sess[j] # NoSession /\ sess[j] < sess[i]
        /\ pc[j] = "rejected" /\ fnOut[j] = Error(j) /\ OwnDocs(j) # {}
        /\ pc[i] = "resolved" /\ OwnDocs(i) \subseteq committed

----------------------------------------------------------------------------
(* one fresh session per invocation *)

\* C15: no two calls, concurrent or nested, ever hold the same session handle,
\* and each withTransaction invocation acquires exactly one session, fresh
\* when acquired: held by no other call, never ended and never used for a
\* transaction.
C15_OneFreshSessionEach ==
    /\ [](\A i, j \in Scopes :
             (i # j /\ IsTxn(i) /\ sess[i] # NoSession /\ kind[j] # "none")
             => sess[j] # sess[i])
    /\ [][\A i \in Scopes :
             /\ (kind'[i] = "txn" /\ sess[i] = NoSession /\ sess'[i] # NoSession)
                => /\ \A j \in Scopes : sess[j] # sess'[i]
                   /\ sess'[i] \notin ended
                   /\ txn[sess'[i]] = "none"
                   /\ pending[sess'[i]] = {}
             /\ sess[i] # NoSession => sess'[i] = sess[i]]_vars

C15_Witness ==
    \E i, j \in Scopes :
        /\ IsTxn(i) /\ IsTxn(j)
        /\ parent[j] = i
        /\ pc[i] = "awaitChild" /\ pc[j] = "running"
        /\ txn[sess[i]] = "open" /\ txn[sess[j]] = "open"
        /\ sess[i] # sess[j]

----------------------------------------------------------------------------
(* every session is eventually ended *)

\* nothing is in flight: every call that was started has settled
Quiescent == \A i \in Scopes : kind[i] # "none" => Settled(i)

\* C16: under fair scheduling every session a withTransaction call has
\* acquired is eventually ended, and when nothing is in flight any more no
\* acquired session is left un-ended.
C16_SessionEventuallyEnded ==
    /\ \A i \in Scopes :
          (IsTxn(i) /\ sess[i] # NoSession) ~> (IsTxn(i) /\ sess[i] \in ended)
    /\ [](Quiescent => \A i \in Scopes :
                          (IsTxn(i) /\ sess[i] # NoSession) => sess[i] \in ended)

C16_Witness ==
    /\ Quiescent
    /\ \E i, j \in Scopes :
          /\ i # j
          /\ IsTxn(i) /\ IsTxn(j)
          /\ fnOut[i] = Error(i) /\ sess[i] \in ended /\ endCalls[i] = 1
          /\ fnOut[j] = Value(j) /\ sess[j] \in ended /\ endCalls[j] = 1

----------------------------------------------------------------------------
(* TransactionContextStorage.run *)

IsRaw(i) == kind[i] = "raw"

\* the session the frame p had in scope before it called anything
Ambient(p) == IF p = 0 THEN NoSession ELSE sess[p]

\* C17: for run(inner, cb) called inside the callback of run(outer, ...),
\* getSession() inside cb returns inner.session, and the outer callback sees
\* outer.session before the nested run, while it is pending and after it has
\* resolved or rejected.
C17_NestedRunRestoresOuter ==
    \A j, p \in Scopes :
        (IsRaw(j) /\ IsRaw(p) /\ parent[j] = p)
        => /\ \A o \in seen[j] : o[2] = sess[j]
           /\ InRun(j) => GetSession(j) = sess[j]
           /\ \A o \in seen[p] : o[2] = sess[p]
           /\ GetSession(p) = sess[p]

C17_Witness ==
    \E j, p \in Scopes :
        /\ IsRaw(j) /\ IsRaw(p) /\ parent[j] = p
        /\ sess[p] # NoSession /\ sess[j] # NoSession /\ sess[j] # sess[p]
        /\ pc[j] = "rejected" /\ seen[j] # {}
        /\ j \in caught[p]
        /\ \E o \in seen[p] : o[1] >= 1 /\ o[2] = sess[p]

\* C18: run(context, callback) invokes the callback exactly once, resolves
\* with exactly the value the callback resolved with and rejects with exactly
\* the error it rejected with, and the caller's ambient context after run has
\* settled is what it was before the call.
C18_RunIsTransparent ==
    \A i \in Scopes :
        IsRaw(i)
        => /\ calls[i] = 1
           /\ GetSession(parent[i]) = Ambient(parent[i])
           /\ Settled(i)
              => /\ result[i] = fnOut[i]
                 /\ fnOut[i].type = "value" => pc[i] = "resolved" /\ result[i] = Value(i)
                 /\ fnOut[i].type # "value" => pc[i] = "rejected" /\ Rejects(result[i])
                 /\ ObservedAfter(i) \subseteq {NoSession}

C18_Witness ==
    \E i, j \in Scopes :
        /\ IsRaw(i) /\ IsRaw(j)
        /\ sess[i] # NoSession
        /\ pc[i] = "rejected" /\ result[i] = Error(i) /\ calls[i] = 1
        /\ pc[j] = "resolved" /\ result[j] = Value(j) /\ calls[j] = 1
        /\ ObservedAfter(i) # {}

----------------------------------------------------------------------------
(* session attachment by the repositories *)

\* C19 as stated: the commands of every BaseRepository operation carry
\* exactly the session getSession() returns in the calling frame, and none
\* when there is no ambient session.
C19_AttachesExactlyAmbientSession ==
    lastCmd.op \in BaseOps => lastCmd.sessions = {GetSession(lastCmd.frame)}

\* C19 amended: with an ambient session the commands of every BaseRepository
\* operation carry exactly that session, whatever the options bag holds;
\* without one the repository adds none, so that the command carries the
\* session of the caller's own options bag for the operations that pass the
\* bag on and no session for findById, findOne, find and findWithPagination;
\* a session attached by an earlier call is never attached again.
C19_AttachesAmbientElseCallerOptions ==
    lastCmd.op \in BaseOps
    => LET f == lastCmd.frame
           amb == GetSession(f)
       IN  /\ amb # NoSession => lastCmd.sessions = {amb}
           /\ amb = NoSession
              => lastCmd.sessions = {IF lastCmd.op \in OptionOps THEN lastCmd.opt ELSE NoSession}
           /\ \A d \in cmds :
                 (d.session \in lastCmd.sessions /\ d.session # NoSession) => d.session = amb

C19_Witness ==
    /\ lastCmd.op \in QueryOps
    /\ lastCmd.frame = 0
    /\ lastCmd.sessions = {NoSession}
    /\ \E d \in cmds : d.session # NoSession /\ d.session \in ended

\* C20 as stated: every command a repository method issues when it is called
\* by the work function of a withTransaction invocation carries the session of
\* that invocation.
C20_CommandsCarryTransactionSession ==
    (lastCmd # NoCmd /\ lastCmd.frame # 0)
    => (IsTxn(lastCmd.frame) => lastCmd.sessions = {sess[lastCmd.frame]})

----------------------------------------------------------------------------
(* BaseRepository.findWithPagination *)

Min(a, b) == IF a <= b THEN a ELSE b
Max(a, b) == IF a >= b THEN a ELSE b

\* const skip = (page - 1) * limit
SkipPages(p, l) == p * l

Skip(p, l) == (p - 1) * l

\* this.model.find(filter).sort(sort).skip(skip).limit(limit): the documents
\* after the first skip ones, at most lim of them
FindUnbounded(docs, skip, lim) == SubSeq(docs, skip + 1, Len(docs))

Find(docs, skip, lim) == SubSeq(docs, skip + 1, Min(skip + lim, Len(docs)))

\* this.model.countDocuments(filter)
CountDocuments(docs) == Len(docs)

\* the store holds 0..MaxDocs matching documents, numbered in sort order, and
\* the caller passes positive integers
PageInit ==
    /\ CoreInit
    /\ ErrIdle
    /\ DecoIdle
    /\ PointIdle
    /\ IncIdle
    /\ BalIdle
    /\ UseIdle
    /\ collection \in {[k \in 1..n |-> k] : n \in 0..MaxDocs}
    /\ page \in 1..MaxPage
    /\ limit \in 1..MaxLimit
    /\ pageResult = [find |-> "none", count |-> "none", data |-> <<>>, total |-> 0]

\* findWithPagination(filter, page, limit): both queries are sent at once
FindWithPagination ==
    /\ pageResult.find = "none"
    /\ pageResult' = [pageResult EXCEPT !.find = "pending", !.count = "pending"]
    /\ UNCHANGED <<exceptPage, collection, page, limit>>

\* the find query is answered
FindReply ==
    /\ pageResult.find = "pending"
    /\ pageResult' = [pageResult EXCEPT !.find = "done",
                                        !.data = Find(collection, Skip(page, limit), limit)]
    /\ UNCHANGED <<exceptPage, collection, page, limit>>

\* the count query is answered
CountReply ==
    /\ pageResult.count = "pending"
    /\ pageResult' = [pageResult EXCEPT !.count = "done",
                                        !.total = CountDocuments(collection)]
    /\ UNCHANGED <<exceptPage, collection, page, limit>>

PageNext == FindWithPagination \/ FindReply \/ CountReply

PageSpec == PageInit /\ [][PageNext]_vars

\* Promise.all has resolved: return { data, total }
PageReturned == pageResult.find = "done" /\ pageResult.count = "done"

\* C22 as stated: page 2 with limit 2 of 5 documents returns exactly 1
\* document and total 5.
C22_SecondPageHasOneDocument ==
    (PageReturned /\ Len(collection) = 5 /\ page = 2 /\ limit = 2)
    => Len(pageResult.data) = 1 /\ pageResult.total = 5

\* C22 amended: page 2 with limit 2 of 5 documents returns exactly 2
\* documents, the third and the fourth in sort order, and total 5.
C22_SecondPageHasTwoDocuments ==
    (PageReturned /\ Len(collection) = 5 /\ page = 2 /\ limit = 2)
    => /\ Len(pageResult.data) = 2
       /\ pageResult.data = <<3, 4>>
       /\ pageResult.total = 5

C22_Witness ==
    /\ PageReturned /\ Len(collection) = 5 /\ page = 2 /\ limit = 2
    /\ Len(pageResult.data) = 2

\* C23: for positive page and limit and N matching documents,
\* findWithPagination returns the documents after the first (page-1)*limit,
\* min(limit, max(0, N-(page-1)*limit)) of them, together with total = N;
\* a page beyond the data gives an empty list and total N.
C23_PageLengthAndTotal ==
    PageReturned
    => LET N == Len(collection)
           skip == (page - 1) * limit
       IN  /\ Len(pageResult.data) = Min(limit, Max(0, N - skip))
           /\ \A k \in 1..Len(pageResult.data) : pageResult.data[k] = collection[skip + k]
           /\ pageResult.total = N
           /\ skip >= N => pageResult.data = <<>>

C23_Witness ==
    /\ PageReturned
    /\ Len(collection) > 0
    /\ (page - 1) * limit >= Len(collection)
    /\ pageResult.data = <<>>
    /\ pageResult.total = Len(collection)

----------------------------------------------------------------------------
(* the options bag of the CRUD methods *)

\* C24: whenever a CRUD method of BaseRepository that accepts an options bag
\* is called with one, the bag reaches the store command, merged with the
\* session attachment, with and without an ambient session.
C24_OptionsReachTheStore ==
    (lastCmd.op \in OptionOps \cup QueryOps /\ lastCmd.opt # NoSession)
    => lastCmd.bag = "merged"

----------------------------------------------------------------------------
(* HandleDbErrors, HandleAllDbErrors *)

\* what the wrapped method body does: return a value, or throw one of these
MongooseErrors == {"ValidationError", "CastError", "DocumentNotFoundError"}
Thrown == MongooseErrors \cup {"MongoServerError11000", "ErrorCode0", "ErrorStringCode",
                               "Error", "null"}
Bodies == {"success"} \cup Thrown

\* error.code, for error?.code
Code(e) ==
    IF e = "MongoServerError11000" THEN [type |-> "number", n |-> 11000]
    ELSE IF e = "ErrorCode0" THEN [type |-> "number", n |-> 0]
    ELSE IF e = "ErrorStringCode" THEN [type |-> "string", n |-> 1]
    ELSE [type |-> "undefined", n |-> 0]

\* JavaScript truthiness of error?.code
Truthy(c) == (c.type = "number" /\ c.n # 0) \/ c.type = "string"

\* error instanceof mongoose.Error || (error?.code && typeof error.code === "number")
IsMongooseErrorAnyCode(e) == e \in MongooseErrors \/ Truthy(Code(e))

IsMongooseError(e) == e \in MongooseErrors \/ (Truthy(Code(e)) /\ Code(e).type = "number")

IsDatabaseError(e) == IsMongooseError(e)

\* one wrapper around a settled call: try { return await method } catch
HandleErrorEachLayer(out) ==
    IF out.threw /\ (IsDatabaseError(out.value) \/ out.value = "InternalServerErrorException")
    THEN [threw |-> TRUE, value |-> "InternalServerErrorException", logged |-> out.logged + 1]
    ELSE out

HandleError(out) ==
    IF out.threw /\ IsDatabaseError(out.value)
    THEN [threw |-> TRUE, value |-> "InternalServerErrorException", logged |-> out.logged + 1]
    ELSE out

RECURSIVE Through(_, _)
Through(out, n) == IF n = 0 THEN out ELSE Through(HandleError(out), n - 1)

\* the methods HandleAllDbErrors wraps: the async functions among the own
\* property names of the decorated class's prototype
OwnAsync(r) == IF r = "PointRepository" THEN PointOps ELSE PointBalanceOps

\* every asynchronous operation callable on an instance of r
Callable(r) == OwnAsync(r) \cup BaseOps

\* each construction wraps the own methods once more
WrapDepth(r, m) == IF m \in OwnAsync(r) THEN instances[r] ELSE 0

Settle(on, m, b, n) ==
    LET raw == [threw |-> b # "success", value |-> b, logged |-> 0]
        out == Through(raw, n)
    IN  errCall' = [on |-> on, method |-> m, depth |-> n, thrown |-> b,
                    threw |-> out.threw, value |-> out.value, logged |-> out.logged]

\* new PointRepository(...) / new PointBalanceRepository(...)
Construct(r) ==
    /\ instances[r] < MaxInst
    /\ instances' = [instances EXCEPT ![r] = @ + 1]
    /\ UNCHANGED <<exceptErr, errCall>>

\* a method decorated with HandleDbErrors is called and its body settles with b
HandledCall(b) ==
    /\ Settle("HandleDbErrors", "method", b, 1)
    /\ UNCHANGED <<exceptErr, instances>>

\* an operation is called on an instance of the decorated repository r and the
\* store command it issues settles with b
RepoCall(r, m, b) ==
    /\ instances[r] >= 1
    /\ Settle(r, m, b, WrapDepth(r, m))
    /\ UNCHANGED <<exceptErr, instances>>

ErrNext ==
    \/ \E r \in Repos : Construct(r)
    \/ \E b \in Bodies : HandledCall(b)
    \/ \E r \in Repos, m \in RepoOps, b \in Bodies : m \in Callable(r) /\ RepoCall(r, m, b)

ErrSpec == Init /\ [][ErrNext]_vars

\* C28 as stated: a HandleDbErrors method translates the thrown error, logging
\* it once, exactly when it is a mongoose.Error or carries a numeric code;
\* anything else comes out identical and unlogged.
C28_TranslatesNumericCodes ==
    errCall.on = "HandleDbErrors"
    => LET e == errCall.thrown
           isStore == e \in MongooseErrors \/ Code(e).type = "number"
       IN  /\ (e # "success" /\ isStore)
              => errCall.threw /\ errCall.value = "InternalServerErrorException"
                               /\ errCall.logged = 1
           /\ (e # "success" /\ ~isStore)
              => errCall.threw /\ errCall.value = e /\ errCall.logged = 0
           /\ e = "success" => ~errCall.threw /\ errCall.value = e /\ errCall.logged = 0

\* C28 amended: the numeric code must be truthy (neither 0 nor NaN) for the
\* error to count as a store error.
C28_TranslatesTruthyNumericCodes ==
    errCall.on = "HandleDbErrors"
    => LET e == errCall.thrown
           isStore == e \in MongooseErrors \/ (Code(e).type = "number" /\ Code(e).n # 0)
       IN  /\ (e # "success" /\ isStore)
              => errCall.threw /\ errCall.value = "InternalServerErrorException"
                               /\ errCall.logged = 1
           /\ (e # "success" /\ ~isStore)
              => errCall.threw /\ errCall.value = e /\ errCall.logged = 0
           /\ e = "success" => ~errCall.threw /\ errCall.value = e /\ errCall.logged = 0

C28_Witness ==
    /\ errCall.on = "HandleDbErrors"
    /\ errCall.thrown = "MongoServerError11000"
    /\ errCall.value = "InternalServerErrorException"
    /\ errCall.logged = 1

\* the store-level data errors: validation, cast, duplicate key, not found
DataErrors == MongooseErrors \cup {"MongoServerError11000"}

\* C29: every store-level data error raised by an operation called on a
\* PointRepository or PointBalanceRepository, own or inherited from
\* BaseRepository, reaches the caller as the generic internal failure, logged.
C29_DataErrorsTranslated ==
    (errCall.on \in Repos /\ errCall.thrown \in DataErrors)
    => /\ errCall.threw
       /\ errCall.value = "InternalServerErrorException"
       /\ errCall.logged >= 1

----------------------------------------------------------------------------
(* Transactional, setTransactionModuleRef *)

\* what moduleRef can hold: nothing (undefined, null), or a registry whose
\* get() resolves both providers, returns nothing for one of them, or throws
Registries == {"resolves", "noStorage", "noConnection", "getThrows"}
References == {"unset"} \cup Registries

\* receivers and argument lists of the calls
Services == {"serviceA", "serviceB"}
Arguments == {<<1, 2>>}

\* moduleRef.get(TransactionContextStorage, { strict: false })
GetStorage(ref) == IF ref \in {"resolves", "noConnection"} THEN "storage" ELSE "undefined"

\* moduleRef.get(getConnectionToken(), { strict: false })
GetConnection(ref) == IF ref \in {"resolves", "noStorage"} THEN "connection" ELSE "undefined"

\* the reference the wrapper reads when it is called
RegistryAtDecoration == "unset"

Registry == moduleRef

\* the wrapper up to the call of withTransaction: the error it throws, if any
Precheck(ref) ==
    IF ref = "unset" THEN "[@Transactional] ModuleRef has not been set"
    ELSE IF ref = "getThrows" THEN "UnknownElementException"
    ELSE IF GetStorage(ref) = "undefined" \/ GetConnection(ref) = "undefined"
         THEN "[@Transactional] Unable to resolve asyncContext or connection from DI"
    ELSE "none"

ConfigurationErrors ==
    {"[@Transactional] ModuleRef has not been set",
     "[@Transactional] Unable to resolve asyncContext or connection from DI",
     "UnknownElementException"}

\* async () => originalMethod.apply(serviceInstance, args)
CaptureUnbound(self, args) == [this |-> "undefined", args |-> args]

Capture(self, args) == [this |-> self, args |-> args]

\* return withTransaction(...): the wrapper's promise adopts the outcome
Adopt(r) == r

\* the caller awaits each decorated call before it makes the next
Awaited == \A j \in Scopes : tcall[j] # NoCall => tresult[j] # None

\* setTransactionModuleRef(ref)
SetTransactionModuleRef(ref) ==
    /\ ref # moduleRef
    /\ moduleRef' = ref
    /\ UNCHANGED <<coreVars, besideDeco, tcall, closure, tresult, lastCall>>

\* a method marked @Transactional is called from frame p on receiver self
\* with args: the wrapper runs up to its throw, or into withTransaction up to
\* the await of startSession()
TransactionalCall(i, p, self, args) ==
    /\ CanCall(p)
    /\ Awaited
    /\ IF Precheck(Registry) # "none"
       THEN /\ lastCall' = [kind |-> "rejected", error |-> Precheck(Registry)]
            /\ UNCHANGED <<coreVars, besideDeco, moduleRef, tcall, closure, tresult>>
       ELSE /\ Enter(i, p)
            /\ tcall' = [tcall EXCEPT ![i] = [this |-> self, args |-> args,
                                              connection |-> GetConnection(Registry),
                                              storage |-> GetStorage(Registry)]]
            /\ closure' = [closure EXCEPT ![i] = Capture(self, args)]
            /\ UNCHANGED <<besideDeco, moduleRef, tresult, lastCall>>

\* the promise of the decorated call settles as withTransaction's did
TransactionalSettle(i) ==
    /\ tcall[i] # NoCall
    /\ Settled(i)
    /\ tresult[i] = None
    /\ tresult' = [tresult EXCEPT ![i] = Adopt(result[i])]
    /\ UNCHANGED <<coreVars, besideDeco, moduleRef, tcall, closure, lastCall>>

\* a method without the marker is called: its descriptor is the original
PlainCall(self, args) ==
    /\ lastCall' = [kind |-> "plain", error |-> "none"]
    /\ UNCHANGED <<coreVars, besideDeco, moduleRef, tcall, closure, tresult>>

DecoNext ==
    \/ \E ref \in References : SetTransactionModuleRef(ref)
    \/ \E i \in Scopes, self \in Services, args \in Arguments :
          TransactionalCall(i, 0, self, args)
    \/ \E i \in Scopes : TransactionalSettle(i)
    \/ \E self \in Services, args \in Arguments : PlainCall(self, args)
    \/ \E i \in Scopes : StartSessionOk(i)
    \/ \E i \in Scopes : StartSessionFail(i)
    \/ \E i \in Scopes : OpenTransaction(i)
    \/ \E i \in Scopes : OpenTransactionThrow(i)
    \/ \E i \in Scopes : OpenTransactionFail(i)
    \/ \E i \in Scopes : Work(i)
    \/ \E i \in Scopes : FnResolve(i)
    \/ \E i \in Scopes : FnReject(i)
    \/ \E i \in Scopes : Commit(i)
    \/ \E i \in Scopes : CommitFail(i)
    \/ \E i \in Scopes : Abort(i)
    \/ \E i \in Scopes : Finally(i)

DecoSpec == Init /\ [][DecoNext]_vars

\* the configuration error a decorated call must fail with under reference ref
ExpectedError(ref) ==
    IF ref = "unset" THEN "[@Transactional] ModuleRef has not been set"
    ELSE IF ref \in {"noStorage", "noConnection"}
         THEN "[@Transactional] Unable to resolve asyncContext or connection from DI"
    ELSE "UnknownElementException"

\* C26: a call of a @Transactional method is rejected by the wrapper exactly
\* when, at that call, moduleRef is unset or cannot resolve the Context Store
\* or the connection; it then fails with the configuration error for that
\* state and nothing else happens: no withTransaction call, no session, no
\* invocation of the original.  A withTransaction call is started only while
\* the registry resolves both, whatever it was when the method was decorated.
C26_FailsFastOnMissingRegistry ==
    [][ /\ (lastCall' # lastCall /\ lastCall'.kind = "rejected")
           => /\ moduleRef # "resolves"
              /\ lastCall'.error = ExpectedError(moduleRef)
              /\ lastCall'.error \in ConfigurationErrors
              /\ UNCHANGED <<nextScope, nextSession, calls, kind, pc, txn>>
              /\ UNCHANGED <<tcall, closure, tresult>>
        /\ (nextScope' # nextScope) => moduleRef = "resolves"
      ]_vars

C26_Witness ==
    /\ lastCall.kind = "rejected"
    /\ lastCall.error = "[@Transactional] Unable to resolve asyncContext or connection from DI"
    /\ moduleRef = "noConnection"
    /\ nextScope = 2
    /\ tresult[1].type = "value"
    /\ nextSession = 2

\* what holds of every decorated call that passed the wrapper's checks
DecoratedCallsFaithful ==
    \A i \in Scopes :
        tcall[i] # NoCall
        => /\ kind[i] = "txn"
           /\ tcall[i].connection = "connection"
           /\ tcall[i].storage = "storage"
           /\ closure[i] = [this |-> tcall[i].this, args |-> tcall[i].args]
           /\ calls[i] <= 1
           /\ fnOut[i] # None => calls[i] = 1
           /\ tresult[i] # None => (Settled(i) /\ tresult[i] = result[i])

\* C27: every call of a @Transactional method that passes the checks makes
\* exactly one withTransaction call, with the resolved connection and
\* Context Store; its work function applies the original once to the
\* caller's receiver and arguments; the call settles exactly as
\* withTransaction did; a method without the marker makes no withTransaction
\* call.
C27_WrapperIsTransparent ==
    [][ /\ DecoratedCallsFaithful'
        /\ (tcall' # tcall) => nextScope' = nextScope + 1
        /\ (lastCall' # lastCall /\ lastCall'.kind = "plain")
           => UNCHANGED <<nextScope, nextSession, kind, pc, txn, tcall>>
      ]_vars

C27_Witness ==
    /\ \E i \in Scopes : /\ tcall[i].this = "serviceB"
                         /\ closure[i] = [this |-> "serviceB", args |-> <<1, 2>>]
                         /\ tresult[i] = Value(i)
    /\ \E j \in Scopes : tcall[j] # NoCall /\ tresult[j].type = "commitError"
    /\ lastCall.kind = "plain"

----------------------------------------------------------------------------
(* reads inside and outside a transaction *)

\* the documents a read command carrying session s finds (NoSession: none):
\* the durable ones and, inside the open transaction of s, its own writes
VisibleUncommitted(s) == committed \cup UNION {pending[t] : t \in Sessions}

Visible(s) == committed \cup (IF s # NoSession /\ txn[s] = "open" THEN pending[s] ELSE {})

\* BaseRepository.findById called by the main chain, or by a callback after
\* its create: applySessionToQuery(this.model.findById(id)).exec()
FindById(f) ==
    /\ f = 0 \/ (f \in Scopes /\ pc[f] = "running")
    /\ lastRead' = [n |-> 1 - lastRead.n, frame |-> f,
                    session |-> ApplySessionToQuery(f),
                    found |-> Visible(ApplySessionToQuery(f))]
    /\ UNCHANGED <<coreVars, besidePoint, unit>>

ReadNext ==
    \/ \E i \in Scopes : Call(i, 0)
    \/ \E i \in Scopes : StartSessionOk(i)
    \/ \E i \in Scopes : StartSessionFail(i)
    \/ \E i \in Scopes : OpenTransaction(i)
    \/ \E i \in Scopes : OpenTransactionThrow(i)
    \/ \E i \in Scopes : OpenTransactionFail(i)
    \/ \E i \in Scopes : Work(i)
    \/ \E i \in Scopes : FnResolve(i)
    \/ \E i \in Scopes : FnReject(i)
    \/ \E i \in Scopes : Commit(i)
    \/ \E i \in Scopes : CommitFail(i)
    \/ \E i \in Scopes : Abort(i)
    \/ \E i \in Scopes : Finally(i)
    \/ \E f \in Frames : FindById(f)

ReadSpec == Init /\ [][ReadNext]_vars

\* C30: a read finds a document created under transaction T's session
\* whenever the read carries T's session, and a read without a session finds
\* it exactly when T has committed: not while T is open, not after T aborted.
C30_ReadYourWritesAndIsolation ==
    [][ lastRead' # lastRead
        => \A d \in cmds :
              d.session # NoSession
              => /\ lastRead'.session = d.session => d \in lastRead'.found
                 /\ lastRead'.session = NoSession
                    => (d \in lastRead'.found <=> txn[d.session] = "committed")
      ]_vars

C30_Witness ==
    /\ lastRead.session # NoSession
    /\ txn[lastRead.session] = "open"
    /\ \E d \in lastRead.found : d.session = lastRead.session /\ d \notin committed
    /\ \E e \in cmds : /\ e.session # NoSession
                       /\ txn[e.session] = "aborted"
                       /\ e \notin lastRead.found

----------------------------------------------------------------------------
(* PointsService.createPointBalance *)

\* the initPoint values the callers pass
InitPoints == {500, 1000}

\* the initPoint argument the original createPointBalance of call i receives
InitPoint(i) == closure[i].args[2]

\* createUserBalance(userId, initpoint): the document it passes to create
PointBalanceUnfunded(initpoint) ==
    [totalPoints |-> initpoint, availablePoints |-> 0, usedPoints |-> 0, expiredPoints |-> 0]

PointBalanceOf(initpoint) ==
    [totalPoints |-> initpoint, availablePoints |-> initpoint, usedPoints |-> 0,
     expiredPoints |-> 0]

\* Point.createInitialPoint(userId, initPoint)
CreateInitialPoint(initPoint) == [amount |-> initPoint, type |-> "EARN", isActive |-> TRUE]

\* the documents of user U: the balance (unique userId) and the ledger entry
BalanceDoc(i, s) ==
    [by |-> i, n |-> "balance", session |-> s, data |-> PointBalanceOf(InitPoint(i))]
PointDoc(i, s) ==
    [by |-> i, n |-> "point", session |-> s, data |-> CreateInitialPoint(InitPoint(i))]
Balances(docs) == {d \in docs : d.n = "balance"}

\* new this.model(doc).save(options): the insert joins the open transaction
\* of the session the options carry, and is durable at once without one
InsertedOutsideTransaction(s, doc) == [pending |-> pending, committed |-> committed \cup {doc}]

Inserted(s, doc) ==
    IF s # NoSession /\ txn[s] = "open"
    THEN [pending |-> [pending EXCEPT ![s] = @ \cup {doc}], committed |-> committed]
    ELSE [pending |-> pending, committed |-> committed \cup {doc}]

\* the unique index on userId: a balance of U is durable, or written by
\* another open transaction
UserIdTakenWhenDurable(s) == Balances(committed) # {}

UserIdTaken(s) ==
    Balances(committed \cup UNION {pending[t] : t \in Sessions \ {s}}) # {}

\* the application has been bootstrapped: setTransactionModuleRef was called
PointInit ==
    /\ CoreInit /\ PageIdle /\ ErrIdle /\ IncIdle /\ BalIdle /\ UseIdle
    /\ moduleRef = "resolves"
    /\ tcall = [i \in Scopes |-> NoCall]
    /\ closure = [i \in Scopes |-> NoBinding]
    /\ tresult = [i \in Scopes |-> None]
    /\ lastCall = [kind |-> "none", error |-> "none"]
    /\ unit = [i \in Scopes |-> "none"]
    /\ lastRead = [n |-> 0, frame |-> 0, session |-> NoSession, found |-> {}, after |-> {}]

\* createPointBalance(U, initPoint) is called by the main chain: the
\* Transactional wrapper passes its checks and calls withTransaction
CreatePointBalance(i, initPoint) ==
    /\ Precheck(Registry) = "none"
    /\ Enter(i, 0)
    /\ tcall' = [tcall EXCEPT ![i] = [this |-> "PointsService", args |-> <<"U", initPoint>>,
                                      connection |-> GetConnection(Registry),
                                      storage |-> GetStorage(Registry)]]
    /\ closure' = [closure EXCEPT ![i] = Capture("PointsService", <<"U", initPoint>>)]
    /\ unit' = [unit EXCEPT ![i] = "called"]
    /\ UNCHANGED <<pageVars, errVars, incVars, balVars, useVars, moduleRef, tresult, lastCall,
                   lastRead>>

\* await this.pointsBalanceRepository.exist(userId): exists({ userId }) is
\* sent without a session; if (existingPoints) throw
Exist(i) ==
    /\ pc[i] = "work"
    /\ unit[i] = "called"
    /\ IF Balances(Visible(NoSession)) # {}
       THEN /\ unit' = [unit EXCEPT ![i] = "alreadyExist"]
            /\ FnSettle(i, Error(i))
       ELSE /\ unit' = [unit EXCEPT ![i] = "checked"]
            /\ UNCHANGED <<pc, fnOut, result>>
    /\ UNCHANGED <<besidePoint, lastRead, repoVars, countVars, scopeVars, sess, store, fanVars,
                   obsVars, callVars, sessVars, dbVars>>

\* await this.pointsBalanceRepository.createUserBalance(userId, initPoint):
\* this.create(pointBalance), rejected by the store when the userId is taken
CreateUserBalance(i) ==
    /\ pc[i] = "work"
    /\ unit[i] = "checked"
    /\ LET s == AttachSession(i)
           doc == BalanceDoc(i, s)
       IN  /\ cmds' = cmds \cup {doc}
           /\ IF UserIdTaken(s)
              THEN /\ unit' = [unit EXCEPT ![i] = "duplicate"]
                   /\ FnSettle(i, Error(i))
                   /\ UNCHANGED <<pending, committed>>
              ELSE /\ unit' = [unit EXCEPT ![i] = "balance"]
                   /\ pending' = Inserted(s, doc).pending
                   /\ committed' = Inserted(s, doc).committed
                   /\ UNCHANGED <<pc, fnOut, result>>
    /\ UNCHANGED <<besidePoint, lastRead, repoVars, countVars, scopeVars, sess, store, fanVars,
                   obsVars, callVars, sessVars>>

\* await this.pointRepository.create(pointData): the ledger entry is stored
CreateLedgerOk(i) ==
    /\ pc[i] = "work"
    /\ unit[i] = "balance"
    /\ LET s == AttachSession(i)
           doc == PointDoc(i, s)
       IN  /\ cmds' = cmds \cup {doc}
           /\ pending' = Inserted(s, doc).pending
           /\ committed' = Inserted(s, doc).committed
    /\ unit' = [unit EXCEPT ![i] = "ledger"]
    /\ UNCHANGED <<besidePoint, lastRead, repoVars, countVars, scopeVars, sess, store, fanVars,
                   obsVars, callVars, sessVars, pc, fnOut, result>>

\* await this.pointRepository.create(pointData) throws
CreateLedgerThrow(i) ==
    /\ pc[i] = "work"
    /\ unit[i] = "balance"
    /\ cmds' = cmds \cup {PointDoc(i, AttachSession(i))}
    /\ unit' = [unit EXCEPT ![i] = "ledgerFailed"]
    /\ FnSettle(i, Error(i))
    /\ UNCHANGED <<besidePoint, lastRead, repoVars, countVars, scopeVars, sess, store, fanVars,
                   obsVars, callVars, sessVars, pending, committed>>

\* return balance
ReturnBalance(i) ==
    /\ pc[i] = "work"
    /\ unit[i] = "ledger"
    /\ unit' = [unit EXCEPT ![i] = "returned"]
    /\ FnSettle(i, Value(i))
    /\ UNCHANGED <<besidePoint, lastRead, repoVars, countVars, scopeVars, sess, store, fanVars,
                   obsVars, callVars, sessVars, dbVars>>

\* getPointsByUserId(U) called by the main chain: findByUserId, findOne
GetPointsByUserId ==
    /\ lastRead' = [n |-> 1 - lastRead.n, frame |-> 0,
                    session |-> ApplySessionToQuery(0),
                    found |-> Balances(Visible(ApplySessionToQuery(0))),
                    after |-> {j \in Scopes : Settled(j)}]
    /\ UNCHANGED <<coreVars, besidePoint, unit>>

PointNext ==
    \/ \E i \in Scopes, initPoint \in InitPoints : CreatePointBalance(i, initPoint)
    \/ \E i \in Scopes : StartSessionOk(i)
    \/ \E i \in Scopes : StartSessionFail(i)
    \/ \E i \in Scopes : OpenTransaction(i)
    \/ \E i \in Scopes : OpenTransactionThrow(i)
    \/ \E i \in Scopes : OpenTransactionFail(i)
    \/ \E i \in Scopes : Exist(i)
    \/ \E i \in Scopes : CreateUserBalance(i)
    \/ \E i \in Scopes : CreateLedgerOk(i)
    \/ \E i \in Scopes : CreateLedgerThrow(i)
    \/ \E i \in Scopes : ReturnBalance(i)
    \/ \E i \in Scopes : Commit(i)
    \/ \E i \in Scopes : CommitFail(i)
    \/ \E i \in Scopes : Abort(i)
    \/ \E i \in Scopes : Finally(i)
    \/ GetPointsByUserId

PointSpec == PointInit /\ [][PointNext]_vars

\* C21: when the ledger insert of createPointBalance throws, the call
\* rejects and no document it wrote is ever durable, so a query made after
\* it finds no balance from it (none at all unless another call committed
\* one); at every moment the durable state holds the balance a call created
\* exactly when it holds that call's initial ledger entry.
C21_BalanceAndLedgerAtomic ==
    /\ \A i \in Scopes :
          /\ unit[i] = "ledgerFailed"
             => /\ Settled(i) => Rejects(result[i])
                /\ pc[i] # "resolved"
                /\ \A d \in committed : d.by # i
          /\ (\E d \in committed : d.by = i /\ d.n = "balance")
             <=> (\E d \in committed : d.by = i /\ d.n = "point")
    /\ \A d \in lastRead.found :
          /\ unit[d.by] = "returned"
          /\ txn[d.session] = "committed"
    /\ (\A t \in Sessions : txn[t] # "committed")
       => lastRead.found = {}

C21_Witness ==
    \E i \in Scopes :
        /\ unit[i] = "ledgerFailed"
        /\ pc[i] = "rejected"
        /\ BalanceDoc(i, sess[i]) \in cmds
        /\ i \in lastRead.after
        /\ lastRead.n = 1
        /\ lastRead.found = {}

----------------------------------------------------------------------------
(* earnPoint, usePoint, expirePoint outside a transaction *)

Mutators == {"earnPoint", "usePoint", "expirePoint"}

\* the filter of the command: { userId }, and for expirePoint also
\* availablePoints: { $gte: amount }
Matches(doc, r) == r.op = "expirePoint" => doc >= r.amount

\* the $inc of the command on availablePoints
Inc(r) == IF r.op = "earnPoint" THEN r.amount ELSE 0 - r.amount

\* model.findOneAndUpdate(filter, { $inc }, options): the store evaluates the
\* filter and applies the increment to the stored document in one step
FindThenSave(doc, r) == IF Matches(r.read, r) THEN r.read + Inc(r) ELSE doc

FindOneAndUpdate(doc, r) == IF Matches(doc, r) THEN doc + Inc(r) ELSE doc

\* the balance of an existing user; no mutation sent yet
IncInit ==
    /\ CoreInit /\ PageIdle /\ ErrIdle /\ DecoIdle /\ PointIdle /\ BalIdle /\ UseIdle
    /\ available \in 0..MaxAmount
    /\ inflight = {}
    /\ applied = [initial |-> available, sum |-> 0, sent |-> 0, overlapped |-> FALSE]

\* earnPoint / usePoint / expirePoint(userId, amount) called with no ambient
\* session: the command is sent; read is the stored value at that moment
Mutate(op, amount) ==
    /\ applied.sent < MaxOps
    /\ inflight' = inflight \cup {[id |-> applied.sent + 1, op |-> op, amount |-> amount,
                                   read |-> available]}
    /\ applied' = [applied EXCEPT !.sent = @ + 1]
    /\ UNCHANGED <<exceptInc, available>>

\* the store executes a command it has received
Execute(r) ==
    /\ r \in inflight
    /\ available' = FindOneAndUpdate(available, r)
    /\ inflight' = inflight \ {r}
    /\ applied' = [applied EXCEPT !.sum = IF Matches(available, r) THEN @ + Inc(r) ELSE @,
                                  !.overlapped = @ \/ r.read # available]
    /\ UNCHANGED exceptInc

IncNext ==
    \/ \E op \in Mutators, amount \in 1..MaxAmount : Mutate(op, amount)
    \/ \E r \in inflight : Execute(r)

IncSpec == IncInit /\ [][IncNext]_vars

\* C25: whatever the interleaving of concurrent earnPoint, usePoint and
\* expirePoint calls on an existing user outside a transaction, no update is
\* lost: availablePoints is the initial value plus the sum of the increments
\* the store applied.
C25_NoLostUpdate ==
    available = applied.initial + applied.sum

C25_Witness ==
    /\ inflight = {}
    /\ applied.sent >= 2
    /\ applied.overlapped
    /\ applied.sum # 0
    /\ available = applied.initial + applied.sum

----------------------------------------------------------------------------
(* HandleAllDbErrors: wrappers stacked by repeated construction *)

\* thrown values isDatabaseError does not classify as store errors
OtherErrors == Thrown \ {e \in Thrown : IsDatabaseError(e)}

\* C39: however many instances of a decorated repository class have been
\* constructed, one call of a wrapped method whose body throws a store error
\* logs it exactly once and rejects with the generic internal failure; any
\* other thrown value reaches the caller identical and unlogged, and a result
\* is returned unchanged.
C39_LoggedOncePerCall ==
    (errCall.on \in Repos /\ errCall.method \in OwnAsync(errCall.on))
    => /\ errCall.depth >= 1
       /\ errCall.thrown \in DataErrors
          => /\ errCall.threw
             /\ errCall.value = "InternalServerErrorException"
             /\ errCall.logged = 1
       /\ errCall.thrown \in OtherErrors
          => /\ errCall.threw
             /\ errCall.value = errCall.thrown
             /\ errCall.logged = 0
       /\ errCall.thrown = "success"
          => ~errCall.threw /\ errCall.value = "success" /\ errCall.logged = 0

C39_Witness ==
    /\ errCall.on = "PointBalanceRepository"
    /\ errCall.method \in OwnAsync("PointBalanceRepository")
    /\ errCall.depth >= 2
    /\ errCall.thrown = "MongoServerError11000"
    /\ errCall.value = "InternalServerErrorException"
    /\ errCall.logged = 1

----------------------------------------------------------------------------
(* run({}, cb) inside a context with a session *)

\* scope j is run({}, cb) called by the callback of p, whose context has a session
Shadows(j, p) ==
    /\ IsRaw(j)
    /\ parent[j] = p
    /\ sess[j] = NoSession
    /\ sess[p] # NoSession

\* C38: inside run({}, cb) nested in a context with session S, getSession()
\* is undefined and the repository commands issued there carry no session;
\* the enclosing callback sees S before the nested run, while it is pending
\* and after it has completed.
C38_EmptyContextShadows ==
    \A j, p \in Scopes :
        Shadows(j, p)
        => /\ InRun(j) => GetSession(j) = NoSession
           /\ \A o \in seen[j] : o[2] = NoSession
           /\ \A d \in cmds : d.by = j => d.session = NoSession
           /\ InRun(p) => GetSession(p) = sess[p]
           /\ \A o \in seen[p] : o[2] = sess[p]
           /\ \A d \in cmds : d.by = p => d.session = sess[p]

C38_Witness ==
    \E j, p \in Scopes :
        /\ Shadows(j, p)
        /\ pc[j] = "resolved"
        /\ seen[j] # {}
        /\ \E d \in cmds : d.by = j /\ d.session = NoSession
        /\ \E o \in seen[p] : o[1] >= 1 /\ o[2] = sess[p]
        /\ \E d \in cmds : d.by = p /\ d.n >= 1 /\ d.session = sess[p]

----------------------------------------------------------------------------
(* work functions that do not await what they start *)

\* the work function starts an asynchronous chain and does not await it: the
\* chain captures the store of the callback and suspends
StartDetached(i) ==
    /\ IsTxn(i)
    /\ pc[i] = "running"
    /\ branch[i]["a"] = "none"
    /\ branch' = [branch EXCEPT ![i]["a"] = "pending"]
    /\ bstore' = [bstore EXCEPT ![i]["a"] = BranchStore(i)]
    /\ UNCHANGED <<auxVars, repoVars, countVars, scopeVars, pc, sess, store, obsVars, fnOut, result,
                   callVars, sessVars, dbVars>>

\* attachSession() in the detached chain: getSession() reads the captured store
DetachedSession(i) == IF bstore[i]["a"].has THEN bstore[i]["a"].session ELSE NoSession

\* the detached chain resumes and calls BaseRepository.create: attachSession,
\* then new this.model(doc).save(options)
DetachedCreate(i) ==
    /\ branch[i]["a"] = "pending"
    /\ branch' = [branch EXCEPT ![i]["a"] = "done"]
    /\ LET s == DetachedSession(i)
           doc == [by |-> i, n |-> nested[i] + 1, session |-> s]
       IN  /\ lastCmd' = [op |-> "create", frame |-> i, opt |-> NoSession, sessions |-> {s},
                          bag |-> "none"]
           /\ cmds' = cmds \cup {doc}
           /\ IF s # NoSession /\ s \in ended
              THEN UNCHANGED <<pending, committed>>
              ELSE IF s # NoSession /\ txn[s] = "open"
              THEN /\ pending' = [pending EXCEPT ![s] = @ \cup {doc}]
                   /\ UNCHANGED committed
              ELSE /\ committed' = committed \cup {doc}
                   /\ UNCHANGED pending
    /\ UNCHANGED <<auxVars, countVars, scopeVars, pc, sess, store, bstore, obsVars, fnOut, result,
                   callVars, sessVars>>

DetachNext ==
    \/ \E i \in Scopes : Call(i, 0)
    \/ \E i \in Scopes : StartSessionOk(i)
    \/ \E i \in Scopes : StartSessionFail(i)
    \/ \E i \in Scopes : OpenTransaction(i)
    \/ \E i \in Scopes : OpenTransactionThrow(i)
    \/ \E i \in Scopes : OpenTransactionFail(i)
    \/ \E i \in Scopes : Work(i)
    \/ \E i \in Scopes : StartDetached(i)
    \/ \E i \in Scopes : DetachedCreate(i)
    \/ \E i \in Scopes : FnResolve(i)
    \/ \E i \in Scopes : FnReject(i)
    \/ \E i \in Scopes : Commit(i)
    \/ \E i \in Scopes : CommitFail(i)
    \/ \E i \in Scopes : Abort(i)
    \/ \E i \in Scopes : Finally(i)

DetachSpec == Init /\ [][DetachNext]_vars

\* C37: no repository operation issues a store command that carries a
\* session on which endSession() has already been called, whatever the work
\* function does, also when it settles without awaiting what it started.
C37_NoCommandOnEndedSession ==
    [][ (lastCmd' # lastCmd /\ lastCmd' # NoCmd)
        => \A s \in lastCmd'.sessions : s = NoSession \/ s \notin ended
      ]_vars

----------------------------------------------------------------------------
(* concurrent createPointBalance calls for one user *)

Points(docs) == {d \in docs : d.n = "point"}

\* C32: whatever the interleaving of concurrent createPointBalance calls for
\* the same user, the durable state holds at most one balance of the user and
\* as many initial ledger entries as balances, and at most one call resolves.
C32_OneBalancePerUser ==
    /\ Cardinality(Balances(committed)) <= 1
    /\ Cardinality(Points(committed)) = Cardinality(Balances(committed))
    /\ \A b \in Balances(committed) : \E l \in Points(committed) : l.by = b.by
    /\ Cardinality({i \in Scopes : unit[i] # "none" /\ pc[i] = "resolved"}) <= 1

C32_Witness ==
    \E i, j \in Scopes :
        /\ i # j
        /\ unit[i] = "returned" /\ pc[i] = "resolved"
        /\ unit[j] = "duplicate" /\ pc[j] = "rejected"
        /\ Cardinality(Balances(committed)) = 1
        /\ Cardinality(Points(committed)) = 1
        /\ Cardinality(Balances(cmds)) = 2

----------------------------------------------------------------------------
(* createPointBalance for a user with and without a balance *)

\* the message of the Error the original createPointBalance of call i threw
\* itself; the other rejections carry the error of the repository call
Message(i) ==
    IF unit[i] = "alreadyExist" THEN "Points already exist for this user" ELSE "none"

\* C34: a createPointBalance call whose existence check runs while a balance
\* of the user is durable throws "Points already exist for this user", rejects
\* with that error and sends no insert to either collection; with no durable
\* balance the check passes, and a call that resolves has stored exactly one
\* balance with totalPoints = availablePoints = initPoint, nothing used or
\* expired, and exactly one EARN ledger entry of amount initPoint.
C34_CreateOnceOrReject ==
    [][\A i \in Scopes :
          /\ (unit[i] = "called" /\ unit'[i] # "called")
             => IF Balances(committed) # {}
                THEN /\ unit'[i] = "alreadyExist"
                     /\ fnOut'[i] = Error(i)
                     /\ UNCHANGED dbVars
                ELSE unit'[i] = "checked"
          /\ unit'[i] = "alreadyExist"
             => /\ Message(i)' = "Points already exist for this user"
                /\ \A d \in cmds' : d.by # i
                /\ Settled(i)' => pc'[i] = "rejected" /\ result'[i] = Error(i)
          /\ (unit'[i] # "none" /\ pc'[i] = "resolved")
             => /\ \E b \in Balances(committed') :
                      /\ b.by = i
                      /\ b.data.totalPoints = tcall'[i].args[2]
                      /\ b.data.availablePoints = tcall'[i].args[2]
                      /\ b.data.usedPoints = 0
                      /\ b.data.expiredPoints = 0
                /\ \E l \in Points(committed') :
                      /\ l.by = i
                      /\ l.data.amount = tcall'[i].args[2]
                      /\ l.data.type = "EARN"
                /\ Cardinality({d \in committed' : d.by = i}) = 2]_vars

C34_Witness ==
    \E i, j \in Scopes :
        /\ unit[i] = "returned" /\ pc[i] = "resolved"
        /\ unit[j] = "alreadyExist" /\ pc[j] = "rejected"
        /\ tcall[i].args[2] # tcall[j].args[2]
        /\ Cardinality(committed) = 2
        /\ \A d \in cmds : d.by = i

----------------------------------------------------------------------------
(* PointBalanceRepository: createUserBalance, earnPoint, usePoint, expirePoint *)

Commands == {"createUserBalance"} \cup Mutators

\* the filter of the command: { userId }, and for expirePoint also
\* availablePoints: { $gte: amount }
SelectsByUserId(doc, r) == doc.exists

Selects(doc, r) ==
    /\ doc.exists
    /\ r.op = "expirePoint" => doc.data.availablePoints >= r.amount

\* the $inc document of the command
IncOfAvailableOnly(r) ==
    [totalPoints |-> IF r.op = "earnPoint" THEN r.amount ELSE 0,
     availablePoints |-> IF r.op = "earnPoint" THEN r.amount ELSE 0 - r.amount,
     usedPoints |-> 0,
     expiredPoints |-> IF r.op = "expirePoint" THEN r.amount ELSE 0]

IncOf(r) ==
    [totalPoints |-> IF r.op = "earnPoint" THEN r.amount ELSE 0,
     availablePoints |-> IF r.op = "earnPoint" THEN r.amount ELSE 0 - r.amount,
     usedPoints |-> IF r.op = "usePoint" THEN r.amount ELSE 0,
     expiredPoints |-> IF r.op = "expirePoint" THEN r.amount ELSE 0]

\* $inc applied to the counters of a document
Incremented(data, inc) ==
    [totalPoints |-> data.totalPoints + inc.totalPoints,
     availablePoints |-> data.availablePoints + inc.availablePoints,
     usedPoints |-> data.usedPoints + inc.usedPoints,
     expiredPoints |-> data.expiredPoints + inc.expiredPoints]

\* only earnPoint passes upsert: true
Upserts(r) == r.op = "earnPoint"

\* findOneAndUpdate(filter, { $inc }, options) as the store executes it: the
\* selected document is incremented in place; with upsert and no document of
\* the user, one is inserted from the schema defaults and the $inc
FindOneAndUpdateBalance(doc, r) ==
    IF Selects(doc, r)
    THEN [doc |-> [exists |-> TRUE, data |-> Incremented(doc.data, IncOf(r))],
          result |-> "document"]
    ELSE IF Upserts(r) /\ ~doc.exists
         THEN [doc |-> [exists |-> TRUE, data |-> Incremented(SchemaDefaults, IncOf(r))],
               result |-> "document"]
         ELSE [doc |-> doc, result |-> "null"]

\* this.create(pointBalance): rejected by the unique index when the user has
\* a balance
CreateBalance(doc, r) ==
    IF doc.exists
    THEN [doc |-> doc, result |-> "duplicateKey"]
    ELSE [doc |-> [exists |-> TRUE, data |-> PointBalanceOf(r.amount)], result |-> "document"]

Executed(doc, r) ==
    IF r.op = "createUserBalance" THEN CreateBalance(doc, r) ELSE FindOneAndUpdateBalance(doc, r)

\* user U has no balance and no command has been sent
BalanceInit ==
    /\ CoreInit /\ PageIdle /\ ErrIdle /\ DecoIdle /\ PointIdle /\ IncIdle /\ UseIdle
    /\ stored = NoBalance
    /\ requests = {}
    /\ reply = NoReply

\* a repository method is called with no ambient session and a non-negative
\* amount: its one command is sent to the store
Send(op, amount) ==
    /\ reply.sent < MaxOps
    /\ requests' = requests \cup {[id |-> reply.sent + 1, op |-> op, amount |-> amount,
                                   others |-> Cardinality({q \in requests : q.op = op})]}
    /\ reply' = [reply EXCEPT !.sent = @ + 1]
    /\ UNCHANGED <<exceptBal, stored>>

\* the store executes one of the commands it has received
Answer(r) ==
    /\ r \in requests
    /\ stored' = Executed(stored, r).doc
    /\ requests' = requests \ {r}
    /\ reply' = [sent |-> reply.sent, op |-> r.op, amount |-> r.amount,
                 result |-> Executed(stored, r).result,
                 others |-> r.others]
    /\ UNCHANGED exceptBal

BalanceNext ==
    \/ \E op \in Commands, amount \in 0..MaxAmount : Send(op, amount)
    \/ \E r \in requests : Answer(r)

BalanceSpec == BalanceInit /\ [][BalanceNext]_vars

\* C35: after any sequence of createUserBalance, earnPoint, usePoint and
\* expirePoint calls with non-negative amounts, the stored balance has
\* totalPoints = availablePoints + usedPoints + expiredPoints.
C35_TotalIsSumOfParts ==
    stored.exists
    => stored.data.totalPoints
       = stored.data.availablePoints + stored.data.usedPoints + stored.data.expiredPoints

C35_Witness ==
    /\ stored.exists
    /\ requests = {}
    /\ reply.sent >= 3
    /\ stored.data.usedPoints > 0
    /\ stored.data.expiredPoints > 0
    /\ stored.data.totalPoints
       = stored.data.availablePoints + stored.data.usedPoints + stored.data.expiredPoints

\* C36: the store executing an expirePoint command moves the amount from
\* availablePoints to expiredPoints and returns the document exactly when
\* the user's availablePoints is at least the amount at that moment;
\* otherwise the reply is null and the balance is unchanged; so no
\* expirePoint command, whatever else is in flight, takes availablePoints
\* from zero or more to below zero.
C36_ExpireGuarded ==
    [][\A r \in requests :
          (requests' = requests \ {r} /\ r.op = "expirePoint")
          => /\ IF stored.exists /\ stored.data.availablePoints >= r.amount
                THEN /\ stored' = [stored EXCEPT
                                      !.data.availablePoints = @ - r.amount,
                                      !.data.expiredPoints = @ + r.amount]
                     /\ reply'.result = "document"
                ELSE /\ stored' = stored
                     /\ reply'.result = "null"
             /\ stored.data.availablePoints >= 0 => stored'.data.availablePoints >= 0]_vars

C36_Witness ==
    /\ reply.op = "expirePoint"
    /\ reply.result = "null"
    /\ reply.others >= 1
    /\ stored.exists
    /\ stored.data.expiredPoints > 0
    /\ stored.data.availablePoints >= 0
    /\ stored.data.availablePoints < reply.amount

----------------------------------------------------------------------------
(* PointsService.usePoints and addPoints *)

\* the balance user U has before the calls: none, or one created by
\* createUserBalance
Openings ==
    {NoBalance} \cup {[exists |-> TRUE, data |-> PointBalanceOf(p)] : p \in 1..MaxAmount}

\* the $inc commands among the documents written
Incs(docs) == {d \in docs : d.n = "inc"}

RECURSIVE Applied(_, _)
Applied(data, docs) ==
    IF docs = {}
    THEN data
    ELSE LET d == CHOOSE e \in docs : TRUE
         IN  Applied(Incremented(data, d.data), docs \ {d})

\* the balance of U as the given writes leave it
Balance(docs) == [exists |-> opening.exists, data |-> Applied(opening.data, Incs(docs))]

\* the balance in the durable state of the store
Durable == Balance(committed)

\* how many writes of the balance document are durable
Version == Cardinality(Incs(committed))

\* a command that carries the session of an open transaction reads the
\* snapshot the transaction took at its first command
NoSnapshot == 0 - 1
Snapshot(s) == IF s # NoSession /\ txn[s] = "open" THEN Version ELSE NoSnapshot

\* the store rejects a write inside a transaction when the document has been
\* written since the snapshot of the transaction, or is written by another
\* open transaction
WriteConflictWhenLocked(i, s) ==
    /\ s # NoSession
    /\ txn[s] = "open"
    /\ \E t \in Sessions \ {s} : txn[t] = "open" /\ Incs(pending[t]) # {}

WriteConflict(i, s) ==
    /\ s # NoSession
    /\ txn[s] = "open"
    /\ \/ held[i].version # NoSnapshot /\ held[i].version # Version
       \/ \E t \in Sessions \ {s} : txn[t] = "open" /\ Incs(pending[t]) # {}

\* if (userPoints.availablePoints < amount)
InsufficientOrEqual(userPoints, amount) == userPoints.availablePoints <= amount

Insufficient(userPoints, amount) == userPoints.availablePoints < amount

\* the findOneAndUpdate command of usePoint / earnPoint sent by call i
IncDoc(i, s, op) ==
    [by |-> i, n |-> "inc", session |-> s,
     data |-> IncOf([op |-> op, amount |-> held[i].amount])]

\* the message of the Error the service method run by call i threw itself
UseMessage(i) ==
    CASE held[i].at = "notFound" -> "Points not found for this user"
      [] held[i].at = "insufficient" -> "Insufficient points"
      [] OTHER -> "none"

\* the application has been bootstrapped; user U has a balance or none
UseInit ==
    /\ CoreInit /\ PageIdle /\ ErrIdle /\ PointIdle /\ IncIdle /\ BalIdle
    /\ moduleRef = "resolves"
    /\ tcall = [i \in Scopes |-> NoCall]
    /\ closure = [i \in Scopes |-> NoBinding]
    /\ tresult = [i \in Scopes |-> None]
    /\ lastCall = [kind |-> "none", error |-> "none"]
    /\ opening \in Openings
    /\ held = [i \in Scopes |-> NotHeld]

\* usePoints(U, amount) or addPoints(U, amount) is called by the main chain:
\* the Transactional wrapper passes its checks and calls withTransaction
UseCall(i, method, amount) ==
    /\ Precheck(Registry) = "none"
    /\ Enter(i, 0)
    /\ held' = [held EXCEPT ![i] = [method |-> method, amount |-> amount, at |-> "called",
                                    read |-> NoBalance, version |-> 0]]
    /\ UNCHANGED <<besideUse, opening>>

\* await this.existingPointsCheck(userId): findByUserId, findOne with the
\* ambient session; if (!existingPoints) throw
ExistingPointsCheck(i) ==
    /\ pc[i] = "work"
    /\ held[i].at = "called"
    /\ LET s == ApplySessionToQuery(i)
           existingPoints == Balance(Visible(s))
       IN  IF ~existingPoints.exists
           THEN /\ held' = [held EXCEPT ![i].at = "notFound"]
                /\ FnSettle(i, Error(i))
           ELSE /\ held' = [held EXCEPT ![i].at = "read", ![i].read = existingPoints,
                                        ![i].version = Snapshot(s)]
                /\ UNCHANGED <<pc, fnOut, result>>
    /\ UNCHANGED <<besideUse, opening, repoVars, countVars, scopeVars, sess, store, fanVars,
                   obsVars, callVars, sessVars, dbVars>>

\* the findOneAndUpdate of usePoint / earnPoint with the ambient session, and
\* the work function settling with its outcome
Update(i, op) ==
    LET s == AttachSession(i)
        doc == IncDoc(i, s, op)
    IN  /\ cmds' = cmds \cup {doc}
        /\ IF WriteConflict(i, s)
           THEN /\ held' = [held EXCEPT ![i].at = "conflict"]
                /\ FnSettle(i, Error(i))
                /\ UNCHANGED <<pending, committed>>
           ELSE /\ held' = [held EXCEPT ![i].at = "updated"]
                /\ pending' = Inserted(s, doc).pending
                /\ committed' = Inserted(s, doc).committed
                /\ FnSettle(i, Value(i))

\* usePoints after the check: throw "Insufficient points", or
\* return this.pointsBalanceRepository.usePoint(userId, amount)
UsePoints(i) ==
    /\ pc[i] = "work"
    /\ held[i].method = "usePoints"
    /\ held[i].at = "read"
    /\ IF Insufficient(held[i].read.data, held[i].amount)
       THEN /\ held' = [held EXCEPT ![i].at = "insufficient"]
            /\ FnSettle(i, Error(i))
            /\ UNCHANGED dbVars
       ELSE Update(i, "usePoint")
    /\ UNCHANGED <<besideUse, opening, repoVars, countVars, scopeVars, sess, store, fanVars,
                   obsVars, callVars, sessVars>>

\* addPoints after the check:
\* return this.pointsBalanceRepository.earnPoint(userId, amount)
AddPoints(i) ==
    /\ pc[i] = "work"
    /\ held[i].method = "addPoints"
    /\ held[i].at = "read"
    /\ Update(i, "earnPoint")
    /\ UNCHANGED <<besideUse, opening, repoVars, countVars, scopeVars, sess, store, fanVars,
                   obsVars, callVars, sessVars>>

UseNext ==
    \/ \E i \in Scopes, amount \in 1..MaxAmount : UseCall(i, "usePoints", amount)
    \/ \E i \in Scopes : UseCall(i, "addPoints", 1)
    \/ \E i \in Scopes : StartSessionOk(i)
    \/ \E i \in Scopes : OpenTransaction(i)
    \/ \E i \in Scopes : ExistingPointsCheck(i)
    \/ \E i \in Scopes : UsePoints(i)
    \/ \E i \in Scopes : AddPoints(i)
    \/ \E i \in Scopes : Commit(i)
    \/ \E i \in Scopes : CommitFail(i)
    \/ \E i \in Scopes : Abort(i)
    \/ \E i \in Scopes : Finally(i)

UseSpec == UseInit /\ [][UseNext]_vars

\* the transaction of call i commits at this step
Commits(i) == txn[sess[i]] = "open" /\ txn'[sess[i]] = "committed"

\* C33: usePoints(U, a) throws "Points not found for this user" when the
\* read finds no balance of U and "Insufficient points" when the balance it
\* read has availablePoints < a; such a call sends no write, its transaction
\* aborts, it rejects with the error thrown, and the durable balance never
\* changes by it; otherwise it sends the $inc, and when its transaction
\* commits the durable balance has availablePoints decreased by a and
\* usedPoints increased by a, the other counters unchanged.
C33_UsePointsRejectsOrDecrements ==
    [][\A i \in Scopes :
          /\ (held[i].at = "called" /\ held'[i].at # "called")
             => IF Durable.exists
                THEN held'[i].at = "read" /\ held'[i].read = Durable
                ELSE /\ held'[i].at = "notFound"
                     /\ UseMessage(i)' = "Points not found for this user"
                     /\ fnOut'[i] = Error(i)
          /\ (held[i].method = "usePoints" /\ held[i].at = "read" /\ held'[i].at # "read")
             => IF held[i].read.data.availablePoints < held[i].amount
                THEN /\ held'[i].at = "insufficient"
                     /\ UseMessage(i)' = "Insufficient points"
                     /\ fnOut'[i] = Error(i)
                ELSE /\ held'[i].at \in {"updated", "conflict"}
                     /\ \E d \in cmds' \ cmds : d.by = i /\ d.session = sess[i]
          /\ held'[i].at \in {"notFound", "insufficient"}
             => /\ \A d \in cmds' \cup committed' : d.by # i
                /\ txn'[sess[i]] # "committed"
                /\ Settled(i)' => /\ pc'[i] = "rejected"
                                   /\ result'[i] = Error(i)
                                   /\ txn'[sess[i]] = "aborted"
                /\ (pc[i] # pc'[i] \/ txn[sess[i]] # txn'[sess[i]]) => Durable' = Durable
          /\ (held[i].method = "usePoints" /\ sess[i] # NoSession /\ Commits(i))
             => /\ held[i].at = "updated"
                /\ Durable'.data = [Durable.data EXCEPT
                                       !.availablePoints = @ - held[i].amount,
                                       !.usedPoints = @ + held[i].amount]]_vars

C33_Witness ==
    \E i, j, k \in Scopes :
        /\ held[i].method = "usePoints" /\ held[i].at = "insufficient" /\ pc[i] = "rejected"
        /\ held[j].method = "usePoints" /\ held[j].at = "updated" /\ pc[j] = "resolved"
        /\ Durable.data.usedPoints = held[j].amount
        /\ Durable.data.availablePoints = opening.data.availablePoints - held[j].amount

====

